---- MODULE Spec2Model ----
(***************************************************************************)
(* A model of scripts/staking.py: the legacy migration sweep               *)
(* (_unstake_all_old_programs) followed by the staking decision procedure  *)
(* of main().  One action per basic block of the script; the chain, the    *)
(* clock, the operator and the .env file are the environment.              *)
(***************************************************************************)
EXTENDS Integers, Sequences, FiniteSets, TLC

\* ------------------------------------------------------------------ bounds
MaxTime == 3            \* the clock runs over 1..MaxTime
MaxDuration == 2        \* minimum staking durations are 0 or MaxDuration
MaxRewards == 1         \* available rewards range over 0..MaxRewards
MaxSlots == 1           \* available staking slots range over 0..MaxSlots
UnstakeBatchLen == 2    \* transactions in a batch of get_unstake_txs
StakeBatchLen == 2      \* transactions in a batch of get_stake_txs

\* ------------------------------------------------------- program constants
\* OLD_STAKING_PROGRAMS, in the dict's insertion order
OLD_STAKING_PROGRAMS == <<"Everest", "Alpine", "CoastalTest">>

\* staking_program = "Coastal": the target contract of the decision procedure
staking_program == "Coastal"

\* args.service_id (a fixed representative of the integer argument)
service_id == 1

\* the contracts queried with is_service_staked / get_service_info
BoolContracts == {"Alpine", "CoastalTest", staking_program}

\* every staking contract the script talks to
StakingContracts == BoolContracts \cup {"Everest"}

\* what the operator may type at a prompt, and the sixth positional argument
Answers == {"yes", "Y", "YES", "no", ""}
UnstakeArgv == {"True", "False", ""}

\* the command lines parse_args tells apart: every positional given and well-formed; a
\* required positional left out (unstake has a default but no nargs, so it is required);
\* a service_id that is no integer or an unknown argument; -h
ArgvForms == {"ok", "missing", "invalid", "help"}

VARIABLES
    \* --- environment
    chain,          \* contract -> [staked, evicted, ts_start, min_dur, rewards, slots, next_ts, liveness]
                    \* (of Everest the script reads none of these: see everest_ids)
    everest_ids,    \* the service ids Everest reports (get_service_ids)
    clock,          \* time.time()
    use_staking,    \* whether ../.trader_runner/.env holds the key USE_STAKING
    argv_unstake,   \* the sixth positional argument, as typed
    argv_form,      \* the command line as argparse sees it: "ok", "missing", "invalid" or "help"
    unsets,         \* how many times dotenv.unset_key was called on USE_STAKING
    run,            \* which run of the script this is (1, or 2 once it was run again)
    start,          \* the chain as it was when this run of the script began
    prev,           \* the batches the first run saw confirmed in full, once the script was run again
    \* --- program
    pc,             \* the block main() is at
    exit_code,      \* the process's exit code; -1 while it runs
    exc,            \* an exception reached the handler of main()
    args_unstake,   \* args.unstake
    prog_i,         \* index in OLD_STAKING_PROGRAMS of the program being swept
    sweep_input,    \* user_input of _unstake_old_program
    next_ts,        \* main(): next_ts
    last_ts,        \* main(): last_ts
    now,            \* main(): now
    chk_now,        \* _check_unstaking_availability(): now, on the target contract; -1 before
    can_unstake,    \* main(): can_unstake (TRUE before the check)
    available_rewards, \* main(): available_rewards
    user_input,     \* main(): user_input
    txs,            \* the batch being submitted
    tx_i,           \* index in txs of the transaction to send next
    ret,            \* the block that follows the batch
    \* --- history
    sent,           \* every transaction handed to send_tx_and_wait_for_receipt, in order
    receipts,       \* every transaction whose receipt was received, in order
    built,          \* every batch built by get_stake_txs / get_unstake_txs, in order
    prompts,        \* every input() the operator answered, in order
    snap            \* the target contract as it was when main() collected its information

\* the state of the test harness (tests/test_run_service.py)
VARIABLES
    hpc,              \* where the harness is
    d_caller,         \* who called check_docker_status: "test" or "start_service"
    attempt,          \* check_docker_status: the loop variable
    d_in,             \* check_docker_status: what Docker answered in the latest attempt
    d_outcomes,       \* check_docker_status: "ok" or "failed", for each attempt of this call
    d_sleeps,         \* check_docker_status: calls of time.sleep(retry_delay) in this call
    d_ret,            \* check_docker_status: "none", "True" or "False"
    h_clock,          \* time.time() as the harness reads it
    start_monitoring, \* check_service_health
    start_time,       \* check_service_health
    metrics,          \* check_service_health
    h_ret,            \* check_service_health: "none", "True" or "False"
    rounds,           \* start_service: prompts answered so far
    dialogue,         \* start_service: "none", "open", "eof", "timeout" or "exception"
    retries,          \* start_service
    docker_calls,     \* start_service: what each call of check_docker_status returned
    s_ret             \* start_service: "none", "ok", "containers_failed" or "raised"

\* the classes BaseTestService and TestAgentService over a pytest session
VARIABLES
    tpc,              \* where the session is: "between", "setup_class", "start_service",
                      \* "body", or after the stop_service() of test_02 "containers",
                      \* "logs", "finally"
    setup_complete,   \* BaseTestService._setup_complete
    base_config_path, \* BaseTestService.config_path
    test_config_path, \* TestAgentService.config_path
    cur,              \* the test pytest is running: its function and its parameter
    invoked,          \* the tests pytest has invoked so far
    service,          \* the configs whose service is up: started, and not taken down yet
    setup_ok,         \* setup_class has returned normally since the last teardown
    verdict           \* what pytest reports for the test it ran last: "none" while a test
                      \* runs, then "passed", "failed" or "error" (the fixture raised)

lifeVars == <<tpc, setup_complete, base_config_path, test_config_path, cur, invoked,
              service, setup_ok, verdict>>

harnessVars == <<hpc, d_caller, attempt, d_in, d_outcomes, d_sleeps, d_ret, h_clock,
                 start_monitoring, start_time, metrics, h_ret, rounds, dialogue, retries,
                 docker_calls, s_ret, lifeVars>>

vars == <<chain, everest_ids, clock, use_staking, argv_unstake, argv_form, unsets, run, prev, start,
          pc, exit_code, exc,
          args_unstake, prog_i, sweep_input, next_ts, last_ts, now, chk_now,
          can_unstake, available_rewards, user_input, txs, tx_i, ret, sent, receipts, built, prompts, snap,
          harnessVars>>

\* what no statement of staking.py but its exception handler touches
envVars == <<use_staking, argv_unstake, argv_form, unsets, run, prev, start, harnessVars>>
locals == <<args_unstake, prog_i, sweep_input, next_ts, last_ts, now, chk_now,
            can_unstake, available_rewards, user_input>>
batchVars == <<txs, tx_i, ret>>
history == <<sent, receipts, built, prompts>>

\* ---------------------------------------------------------- pure functions

\* str.lower() on the answers the operator may type
Lower(s) ==
    CASE s = "Y" -> "y"
      [] s = "YES" -> "yes"
      [] OTHER -> s

\* argparse type=bool: bool(string), true of every non-empty string
ParseBool(s) == s # ""

\* mutant: every answer but "no" is taken as a confirmation
Confirmed_NotNo(u) == u # "no"

\* user_input not in ["yes", "y"], negated
Confirmed(u) == u \in {"yes", "y"}

\* mutant: no program is handled as an Everest program
StartsWithEverest_Never(p) == FALSE

\* staking_program.startswith("Everest"), over the names of the table
StartsWithEverest(p) == p = "Everest"

\* ------------------------------------------------------------ chain reader

is_service_staked(c) == chain[c].staked
is_service_evicted(c) == chain[c].evicted
get_service_ids == everest_ids
get_available_rewards(c) == chain[c].rewards
get_available_staking_slots(c) == chain[c].slots
get_min_staking_duration(c) == chain[c].min_dur
get_service_info_ts_start(c) == chain[c].ts_start
get_next_checkpoint_ts(c) == chain[c].next_ts
get_liveness_period(c) == chain[c].liveness

\* mutant: the stake's start is not subtracted from the clock reading
CheckUnstakingAvailability_NoStart(c, t) ==
    ~ (  t < get_min_staking_duration(c)
      /\ get_available_rewards(c) > 0 )

\* _check_unstaking_availability, given the clock reading t
CheckUnstakingAvailability(c, t) ==
    ~ (  (t - get_service_info_ts_start(c)) < get_min_staking_duration(c)
      /\ get_available_rewards(c) > 0 )

\* -------------------------------------------------- transaction submitter

Tx(phase, kind, c, k) == [phase |-> phase, kind |-> kind, contract |-> c, k |-> k]

get_unstake_txs(phase, c) == [k \in 1..UnstakeBatchLen |-> Tx(phase, "unstake", c, k)]
get_stake_txs(phase, c) == [k \in 1..StakeBatchLen |-> Tx(phase, "stake", c, k)]

\* the chain after transaction t is included: the last transaction of a batch
\* carries the stake or unstake call
ChainAfter(t) ==
    IF t.kind = "unstake" /\ t.k = UnstakeBatchLen
    THEN [chain EXCEPT ![t.contract].staked = FALSE, ![t.contract].evicted = FALSE]
    ELSE IF t.kind = "stake" /\ t.k = StakeBatchLen
    THEN [chain EXCEPT ![t.contract].staked = TRUE, ![t.contract].evicted = FALSE,
                       ![t.contract].ts_start = clock]
    ELSE chain

IdsAfter(t) ==
    IF t.kind = "unstake" /\ t.k = UnstakeBatchLen /\ t.contract = "Everest"
    THEN everest_ids \ {service_id}
    ELSE everest_ids

\* -------------------------------------------------------------------- Init

\* a deprecated program the service is not staked on, and one it is staked on
OldContractStates ==
    {[staked |-> FALSE, evicted |-> FALSE, ts_start |-> 0, min_dur |-> 0,
      rewards |-> 0, slots |-> 0, next_ts |-> 0, liveness |-> 0]}
    \cup
    [staked : {TRUE}, evicted : {FALSE}, ts_start : {0}, min_dur : {MaxDuration},
     rewards : 0..MaxRewards, slots : {0}, next_ts : {0}, liveness : {0}]

TargetContractStates ==
    [staked : BOOLEAN, evicted : BOOLEAN, ts_start : 0..1, min_dur : {0, MaxDuration},
     rewards : 0..MaxRewards, slots : 0..MaxSlots, next_ts : {1, MaxTime}, liveness : {1}]

\* the example run of the specification: two free slots, 500 available rewards
ScenarioSlots == 2
ScenarioRewards == 500

\* the target contract, its free slots and rewards being none or those of the example
ScenarioTargetStates ==
    [staked : BOOLEAN, evicted : BOOLEAN, ts_start : 0..1, min_dur : {0, MaxDuration},
     rewards : {0, ScenarioRewards}, slots : {0, ScenarioSlots}, next_ts : {1, MaxTime},
     liveness : {1}]

NoSnap == [staked |-> FALSE, evicted |-> FALSE, ts_start |-> 0, min_dur |-> 0,
           rewards |-> 0, slots |-> 0, next_ts |-> 0, liveness |-> 0]

\* ------------------------------------------------- test harness: constants

\* the bounds of the harness model
MaxContainers == 2
MaxPrompts == 2

\* check_docker_status: max_retries = 3
max_retries == 3
\* check_service_health: the window, the request timeout, the interval, in seconds
HealthWindow == 120
RequestTimeout == 10
HealthInterval == 5
\* response.status_code == 200
StatusOK == 200
\* a status code that is not 200
StatusError == 500
\* start_service: retries = 5
StartRetries == 5
\* None, in metrics
None == -1

\* container.status of a container of client.containers.list(all=True, ...)
Statuses == {"running", "exited", "restarting"}
\* container.status of a container of client.containers.list(...), which leaves out the
\* stopped ones
ListedStatuses == {"running", "restarting"}

\* the lists of at most MaxContainers containers, each given by its status
ContainerLists(S) == UNION {[1..n -> S] : n \in 0..MaxContainers}

\* the loop over all_containers calls inspect_container or logs
LogsRead(in) == \E i \in 1..Len(in.all) : in.all[i] \in {"exited", "restarting"}

\* what one attempt of check_docker_status gets from Docker: the two lists, and where
\* a call raises if one does ("client": docker.from_env or a list call, and then there
\* are no lists; "logs": inspect_container or logs of an exited or restarting container)
AttemptInputs ==
    {in \in [all : ContainerLists(Statuses), running : ContainerLists(ListedStatuses),
             fault : {"none", "client", "logs"}] :
       /\ in.fault = "client" => (in.all = <<>> /\ in.running = <<>>)
       /\ in.fault = "logs" => LogsRead(in)}

NoAttempt == [all |-> <<>>, running |-> <<>>, fault |-> "none"]

\* all(c.status == "running" for c in running_containers)
AllRunning(cs) == \A i \in 1..Len(cs) : cs[i] = "running"

\* mutant: any(...) in place of all(...)
AttemptOutcome_AnyRunning(in) ==
    IF in.fault = "client" THEN "exception"
    ELSE IF in.all = <<>> THEN "none_found"
    ELSE IF in.fault = "logs" /\ LogsRead(in) THEN "exception"
    ELSE IF in.running = <<>> THEN "none_running"
    ELSE IF \E i \in 1..Len(in.running) : in.running[i] = "running" THEN "ok"
    ELSE "not_running"

\* how the body of the try block of one attempt ends
AttemptOutcome(in) ==
    IF in.fault = "client" THEN "exception"
    ELSE IF in.all = <<>> THEN "none_found"
    ELSE IF in.fault = "logs" /\ LogsRead(in) THEN "exception"
    ELSE IF in.running = <<>> THEN "none_running"
    ELSE IF AllRunning(in.running) THEN "ok"
    ELSE "not_running"

\* what requests.get gives: a status code, or an exception
StatusCodes == {StatusOK, StatusError}
RequestErrors == {"timeout", "connection_error", "error"}

\* what a call of requests.get does: it raises r.error, or returns with status r.code
Responses == [code : StatusCodes, error : {"None"} \cup RequestErrors]

\* metrics = {...} at the entry of check_service_health
NewMetrics ==
    [response_time |-> None, status_code |-> None, error |-> "None",
     successful_checks |-> 0, total_checks |-> 0]

\* get_config_files(): the JSON files of the configs directory, as strings
ConfigFiles == {"configs/config_modius.json", "configs/config_predict_trader.json"}

\* the test functions of TestAgentService
TestFunctions == {"test_01_health_check", "test_02_shutdown_logs"}

\* what @pytest.mark.parametrize('config_path', get_config_files()) makes of the class:
\* every test function with every config file
TestItems == [test : TestFunctions, config_path : ConfigFiles]

\* no test is running
NoTest == [test |-> "None", config_path |-> "None"]

\* the class attributes as the class statements leave them, before pytest invokes the
\* first test
LifecycleIdle ==
    /\ tpc = "between"
    /\ setup_complete = FALSE
    /\ base_config_path = "None"
    /\ test_config_path = "None"
    /\ cur = NoTest
    /\ invoked = {}
    /\ service = {}
    /\ setup_ok = FALSE
    /\ verdict = "none"

\* the harness before any of its functions is called
HarnessIdle ==
    /\ hpc = "idle"
    /\ d_caller = "test"
    /\ attempt = 0
    /\ d_in = NoAttempt
    /\ d_outcomes = <<>>
    /\ d_sleeps = 0
    /\ d_ret = "none"
    /\ h_clock = 0
    /\ start_monitoring = 0
    /\ start_time = 0
    /\ metrics = NewMetrics
    /\ h_ret = "none"
    /\ rounds = 0
    /\ dialogue = "none"
    /\ retries = 0
    /\ docker_calls = <<>>
    /\ s_ret = "none"

\* the state at the entry of main(), the target contract being in one of `targets`
InitOver(targets) ==
    /\ \E e \in OldContractStates, a \in OldContractStates, c \in OldContractStates,
          t \in targets :
         /\ chain = [x \in StakingContracts |->
                      IF x = "Everest" THEN e
                      ELSE IF x = "Alpine" THEN a
                      ELSE IF x = "CoastalTest" THEN c ELSE t]
         /\ everest_ids = IF e.staked THEN {service_id, service_id + 1} ELSE {service_id + 1}
    /\ clock = 1
    /\ use_staking = TRUE
    /\ unsets = 0
    /\ run = 1
    /\ prev = {}
    /\ start = chain
    /\ argv_unstake \in UnstakeArgv
    /\ argv_form \in ArgvForms
    /\ pc = "parse"
    /\ exit_code = -1
    /\ exc = FALSE
    /\ args_unstake = FALSE
    /\ prog_i = 0
    /\ sweep_input = ""
    /\ next_ts = 0
    /\ last_ts = 0
    /\ now = 0
    /\ chk_now = -1
    /\ can_unstake = TRUE
    /\ available_rewards = 0
    /\ user_input = ""
    /\ txs = <<>>
    /\ tx_i = 0
    /\ ret = ""
    /\ sent = <<>>
    /\ receipts = <<>>
    /\ built = <<>>
    /\ prompts = <<>>
    /\ snap = NoSnap
    /\ HarnessIdle
    /\ LifecycleIdle

Init == InitOver(TargetContractStates)

\* ----------------------------------------------------------------- helpers

\* sys.exit(code)
Exit(code) == pc' = "done" /\ exit_code' = code

\* for tx in batch: send_tx_and_wait_for_receipt(...), then the block `after`
StartBatch(batch, after) ==
    /\ txs' = batch
    /\ tx_i' = 1
    /\ ret' = after
    /\ built' = Append(built, batch)
    /\ pc' = IF Len(batch) = 0 THEN after ELSE "send"

\* mutant: the loop over the table stops one program short
AfterProgram_SkipsLast(i) ==
    IF i < Len(OLD_STAKING_PROGRAMS) - 1 THEN "sweep_check" ELSE "collect"

\* the block that follows program i of the sweep
AfterProgram(i) == IF i < Len(OLD_STAKING_PROGRAMS) THEN "sweep_check" ELSE "collect"

\* ------------------------------------------------------------------ main()

\* parser.error(...) ends the process with sys.exit(2)
ArgparseExitCode == 2

\* parser.parse_args(), EthereumApi(...), EthereumCrypto(...). On -h parse_args prints
\* the help and raises SystemExit(0); on a command line it cannot parse it raises
\* SystemExit(2). SystemExit is no Exception: the handler of main() does not run
ParseArgs ==
    /\ pc = "parse"
    /\ IF argv_form = "ok"
       THEN /\ args_unstake' = ParseBool(argv_unstake)
            /\ prog_i' = 1
            /\ pc' = "sweep_check"
            /\ exit_code' = exit_code
       ELSE /\ Exit(IF argv_form = "help" THEN 0 ELSE ArgparseExitCode)
            /\ UNCHANGED <<args_unstake, prog_i>>
    /\ UNCHANGED <<chain, everest_ids, clock, envVars, exc, sweep_input,
                   next_ts, last_ts, now, chk_now, can_unstake, available_rewards, user_input,
                   batchVars, history, snap>>

\* ------------------------------------------------- _unstake_old_program(i)

\* mutant: the service is taken to be staked on every deprecated program
OldProgramStaked_Always(p) == TRUE

\* whether the service is staked on the deprecated program p
OldProgramStaked(p) ==
    IF StartsWithEverest(p)
    THEN service_id \in get_service_ids
    ELSE is_service_staked(p)

\* mutant: the duration lock of a deprecated program is not looked at
SweepCheckTarget_NoLockCheck(p, i) ==
    IF ~ OldProgramStaked(p) THEN AfterProgram(i) ELSE "sweep_ask"

\* the block an old program's check leads to: the next program when the service is
\* not staked there, the warning when it cannot be unstaked yet, else the question
SweepCheckTarget(p, i) ==
    IF ~ OldProgramStaked(p) THEN AfterProgram(i)
    ELSE IF ~ StartsWithEverest(p) /\ ~ CheckUnstakingAvailability(p, clock)
    THEN "sweep_warn"
    ELSE "sweep_ask"

SweepCheck ==
    /\ pc = "sweep_check"
    /\ LET p == OLD_STAKING_PROGRAMS[prog_i]
           target == SweepCheckTarget(p, prog_i)
       IN /\ pc' = target
          /\ prog_i' = IF target \in {"sweep_check", "collect"} THEN prog_i + 1 ELSE prog_i
    /\ UNCHANGED <<chain, everest_ids, clock, envVars, exit_code, exc, args_unstake,
                   sweep_input, next_ts, last_ts, now, chk_now, can_unstake,
                   available_rewards, user_input, batchVars, history, snap>>

\* input("Press Enter to continue..."); sys.exit(0)
SweepExitCode == 0

SweepWarn ==
    /\ pc = "sweep_warn"
    /\ prompts' = Append(prompts, [phase |-> "sweep", site |-> "warn",
                                   contract |-> OLD_STAKING_PROGRAMS[prog_i]])
    /\ Exit(SweepExitCode)
    /\ UNCHANGED <<chain, everest_ids, clock, envVars, exc, locals, batchVars,
                   sent, receipts, built, snap>>

\* mutant: a refusal returns from _unstake_old_program instead of ending the run
SweepAsk_RefusalReturns ==
    /\ pc = "sweep_ask"
    /\ \E a \in Answers :
         /\ sweep_input' = Lower(a)
         /\ prompts' = Append(prompts, [phase |-> "sweep", site |-> "ask",
                                        contract |-> OLD_STAKING_PROGRAMS[prog_i]])
         /\ pc' = IF Confirmed(Lower(a)) THEN "sweep_build" ELSE "sweep_next"
    /\ UNCHANGED <<chain, everest_ids, clock, envVars, exit_code, exc, args_unstake, prog_i,
                   next_ts, last_ts, now, chk_now, can_unstake, available_rewards, user_input,
                   batchVars, sent, receipts, built, snap>>

\* user_input = input("Do you want to continue unstaking ...").lower()
SweepAsk ==
    /\ pc = "sweep_ask"
    /\ \E a \in Answers :
         /\ sweep_input' = Lower(a)
         /\ prompts' = Append(prompts, [phase |-> "sweep", site |-> "ask",
                                        contract |-> OLD_STAKING_PROGRAMS[prog_i]])
         /\ IF Confirmed(Lower(a))
            THEN pc' = "sweep_build" /\ exit_code' = exit_code
            ELSE Exit(1)
    /\ UNCHANGED <<chain, everest_ids, clock, envVars, exc, args_unstake, prog_i,
                   next_ts, last_ts, now, chk_now, can_unstake, available_rewards, user_input,
                   batchVars, sent, receipts, built, snap>>

\* unstake_txs = get_unstake_txs(...); for tx in unstake_txs: ...
SweepBuild ==
    /\ pc = "sweep_build"
    /\ StartBatch(get_unstake_txs("sweep", OLD_STAKING_PROGRAMS[prog_i]), "sweep_next")
    /\ UNCHANGED <<chain, everest_ids, clock, envVars, exit_code, exc, locals,
                   sent, receipts, prompts, snap>>

\* mutant: the loop checks the same program again after its unstake
SweepNext_Rechecks ==
    /\ pc = "sweep_next"
    /\ pc' = "sweep_check"
    /\ sweep_input' = ""
    /\ UNCHANGED <<chain, everest_ids, clock, envVars, exit_code, exc, args_unstake, prog_i,
                   next_ts, last_ts, now, chk_now, can_unstake, available_rewards, user_input,
                   batchVars, history, snap>>

\* the function returns; the loop of _unstake_all_old_programs goes on
SweepNext ==
    /\ pc = "sweep_next"
    /\ pc' = AfterProgram(prog_i)
    /\ prog_i' = prog_i + 1
    /\ sweep_input' = ""
    /\ UNCHANGED <<chain, everest_ids, clock, envVars, exit_code, exc, args_unstake,
                   next_ts, last_ts, now, chk_now, can_unstake, available_rewards, user_input,
                   batchVars, history, snap>>

\* ------------------------------------------------------ main(): the engine

\* mutant: the unstake argument is not looked at
Collect_IgnoresUnstake ==
    /\ pc = "collect"
    /\ next_ts' = get_next_checkpoint_ts(staking_program)
    /\ last_ts' = get_next_checkpoint_ts(staking_program) - get_liveness_period(staking_program)
    /\ now' = clock
    /\ available_rewards' = get_available_rewards(staking_program)
    /\ snap' = chain[staking_program]
    /\ pc' = "stake_check"
    /\ UNCHANGED <<chain, everest_ids, clock, envVars, exit_code, exc, args_unstake,
                   prog_i, sweep_input, chk_now, can_unstake, user_input, batchVars,
                   history>>

\* "Collect information": next_ts, liveness_period, last_ts, now, available_rewards
Collect ==
    /\ pc = "collect"
    /\ next_ts' = get_next_checkpoint_ts(staking_program)
    /\ last_ts' = get_next_checkpoint_ts(staking_program) - get_liveness_period(staking_program)
    /\ now' = clock
    /\ available_rewards' = get_available_rewards(staking_program)
    /\ snap' = chain[staking_program]
    /\ pc' = IF args_unstake THEN "unstake_check" ELSE "stake_check"
    /\ UNCHANGED <<chain, everest_ids, clock, envVars, exit_code, exc, args_unstake,
                   prog_i, sweep_input, chk_now, can_unstake, user_input, batchVars,
                   history>>

\* mutant: the eviction warning comes before the staked test
UnstakeCheck_EvictFirst ==
    /\ pc = "unstake_check"
    /\ IF is_service_evicted(staking_program)
       THEN pc' = "evict_ack" /\ exit_code' = exit_code
       ELSE IF ~ is_service_staked(staking_program)
       THEN Exit(0)
       ELSE pc' = "unstake_avail" /\ exit_code' = exit_code
    /\ UNCHANGED <<chain, everest_ids, clock, envVars, exc, locals, batchVars, history, snap>>

\* if args.unstake: the staked test and the eviction test
UnstakeCheck ==
    /\ pc = "unstake_check"
    /\ IF ~ is_service_staked(staking_program)
       THEN Exit(0)
       ELSE /\ pc' = IF is_service_evicted(staking_program) THEN "evict_ack" ELSE "unstake_avail"
            /\ exit_code' = exit_code
    /\ UNCHANGED <<chain, everest_ids, clock, envVars, exc, locals, batchVars, history, snap>>

\* input("Press Enter to continue...") after the eviction warning
EvictAck ==
    /\ pc = "evict_ack"
    /\ prompts' = Append(prompts, [phase |-> "engine", site |-> "evict_ack",
                                   contract |-> staking_program])
    /\ pc' = "unstake_avail"
    /\ UNCHANGED <<chain, everest_ids, clock, envVars, exit_code, exc, locals, batchVars,
                   sent, receipts, built, snap>>

\* mutant: the comparison with the next checkpoint is inverted
BeforeCheckpoint_Inverted == now >= next_ts

\* whether the confirmation of the checkpoint warning is asked: now < next_ts
BeforeCheckpoint == now < next_ts

\* can_unstake = _check_unstaking_availability(...), then the checkpoint test
UnstakeAvail ==
    /\ pc = "unstake_avail"
    /\ chk_now' = clock
    /\ can_unstake' = CheckUnstakingAvailability(staking_program, clock)
    /\ IF ~ CheckUnstakingAvailability(staking_program, clock)
       THEN Exit(1)
       ELSE /\ pc' = IF BeforeCheckpoint THEN "unstake_confirm" ELSE "unstake_build"
            /\ exit_code' = exit_code
    /\ UNCHANGED <<chain, everest_ids, clock, envVars, exc, args_unstake, prog_i,
                   sweep_input, next_ts, last_ts, now, available_rewards, user_input,
                   batchVars, history, snap>>

\* user_input = input("Do you want to continue unstaking ...").lower()
UnstakeConfirm ==
    /\ pc = "unstake_confirm"
    /\ \E a \in Answers :
         /\ user_input' = Lower(a)
         /\ prompts' = Append(prompts, [phase |-> "engine", site |-> "confirm",
                                        contract |-> staking_program])
         /\ IF Confirmed(Lower(a))
            THEN pc' = "unstake_build" /\ exit_code' = exit_code
            ELSE Exit(1)
    /\ UNCHANGED <<chain, everest_ids, clock, envVars, exc, args_unstake, prog_i,
                   sweep_input, next_ts, last_ts, now, chk_now, can_unstake,
                   available_rewards, batchVars, sent, receipts, built, snap>>

\* unstake_txs = get_unstake_txs(...); for tx in unstake_txs: ...
UnstakeBuild ==
    /\ pc = "unstake_build"
    /\ StartBatch(get_unstake_txs("engine", staking_program), "unstake_exit")
    /\ UNCHANGED <<chain, everest_ids, clock, envVars, exit_code, exc, locals,
                   sent, receipts, prompts, snap>>

\* mutant: the unstake path goes on to _try_stake_service, as the eviction branch does
UnstakeExit_Restakes ==
    /\ pc = "unstake_exit"
    /\ pc' = "try_stake"
    /\ UNCHANGED <<chain, everest_ids, clock, envVars, exit_code, exc, locals, batchVars,
                   history, snap>>

\* "Successfully unstaked"; sys.exit(0)
UnstakeExit ==
    /\ pc = "unstake_exit"
    /\ Exit(0)
    /\ UNCHANGED <<chain, everest_ids, clock, envVars, exc, locals, batchVars, history, snap>>

\* mutant: the zero-rewards test is inverted
StakeCheckTarget_RewardsInverted ==
    IF ~ is_service_staked(staking_program) THEN "try_stake"
    ELSE IF is_service_evicted(staking_program)
    THEN (IF CheckUnstakingAvailability(staking_program, clock) THEN "evict_build" ELSE "exit1")
    ELSE (IF get_available_rewards(staking_program) # 0 THEN "zero_build" ELSE "exit0")

\* mutant: the zero-rewards shortcut is tested before the eviction
StakeCheckTarget_ZeroFirst ==
    IF ~ is_service_staked(staking_program) THEN "try_stake"
    ELSE IF get_available_rewards(staking_program) = 0 THEN "zero_build"
    ELSE IF is_service_evicted(staking_program)
    THEN (IF CheckUnstakingAvailability(staking_program, clock) THEN "evict_build" ELSE "exit1")
    ELSE "exit0"

\* the block the staked branch leads to when no unstake was requested
StakeCheckTarget ==
    IF ~ is_service_staked(staking_program) THEN "try_stake"
    ELSE IF is_service_evicted(staking_program)
    THEN (IF CheckUnstakingAvailability(staking_program, clock) THEN "evict_build" ELSE "exit1")
    ELSE (IF get_available_rewards(staking_program) = 0 THEN "zero_build" ELSE "exit0")

\* if is_service_staked(...): the eviction branch, the zero-rewards branch, "remain staked"
StakeCheck ==
    /\ pc = "stake_check"
    /\ LET evicted == is_service_staked(staking_program) /\ is_service_evicted(staking_program)
           rewards_read == is_service_staked(staking_program)
                           /\ ~ is_service_evicted(staking_program)
       IN /\ chk_now' = IF evicted THEN clock ELSE chk_now
          /\ can_unstake' = IF evicted
                            THEN CheckUnstakingAvailability(staking_program, clock)
                            ELSE can_unstake
          /\ available_rewards' = IF rewards_read
                                  THEN get_available_rewards(staking_program)
                                  ELSE available_rewards
    /\ CASE StakeCheckTarget = "exit0" -> Exit(0)
         [] StakeCheckTarget = "exit1" -> Exit(1)
         [] OTHER -> pc' = StakeCheckTarget /\ exit_code' = exit_code
    /\ UNCHANGED <<chain, everest_ids, clock, envVars, exc, args_unstake, prog_i,
                   sweep_input, next_ts, last_ts, now, user_input, batchVars, history, snap>>

\* mutant: the eviction branch exits after the unstake batch, with no stake attempt
EvictBuild_NoRestake ==
    /\ pc = "evict_build"
    /\ StartBatch(get_unstake_txs("engine", staking_program), "zero_exit")
    /\ UNCHANGED <<chain, everest_ids, clock, envVars, exit_code, exc, locals,
                   sent, receipts, prompts, snap>>

\* mutant: the eviction branch looks for a free slot before it unstakes
EvictBuild_SlotsFirst ==
    /\ pc = "evict_build"
    /\ IF get_available_staking_slots(staking_program) > 0
       THEN /\ StartBatch(get_unstake_txs("engine", staking_program), "try_stake")
            /\ exit_code' = exit_code
       ELSE Exit(1) /\ UNCHANGED <<batchVars, built>>
    /\ UNCHANGED <<chain, everest_ids, clock, envVars, exc, locals,
                   sent, receipts, prompts, snap>>

\* the eviction branch: unstake_txs = get_unstake_txs(...); for tx in unstake_txs: ...;
\* then _try_stake_service(...)
EvictBuild ==
    /\ pc = "evict_build"
    /\ StartBatch(get_unstake_txs("engine", staking_program), "try_stake")
    /\ UNCHANGED <<chain, everest_ids, clock, envVars, exit_code, exc, locals,
                   sent, receipts, prompts, snap>>

\* mutant: the zero-rewards branch goes on to _try_stake_service, as the eviction branch does
ZeroBuild_ThenStake ==
    /\ pc = "zero_build"
    /\ StartBatch(get_unstake_txs("engine", staking_program), "try_stake")
    /\ UNCHANGED <<chain, everest_ids, clock, envVars, exit_code, exc, locals,
                   sent, receipts, prompts, snap>>

\* the zero-rewards branch: unstake_txs = get_unstake_txs(...); for tx in unstake_txs: ...
ZeroBuild ==
    /\ pc = "zero_build"
    /\ StartBatch(get_unstake_txs("engine", staking_program), "zero_exit")
    /\ UNCHANGED <<chain, everest_ids, clock, envVars, exit_code, exc, locals,
                   sent, receipts, prompts, snap>>

\* mutant: the zero-rewards branch clears USE_STAKING before it exits
ZeroExit_ClearsFlag ==
    /\ pc = "zero_exit"
    /\ Exit(0)
    /\ use_staking' = FALSE
    /\ unsets' = unsets + 1
    /\ UNCHANGED <<chain, everest_ids, clock, argv_unstake, argv_form, run, prev, start, harnessVars, exc, locals,
                   batchVars, history, snap>>

\* "Successfully unstaked"; sys.exit(0)
ZeroExit ==
    /\ pc = "zero_exit"
    /\ Exit(0)
    /\ UNCHANGED <<chain, everest_ids, clock, envVars, exc, locals, batchVars, history, snap>>

\* mutant: the no-rewards test is inverted
TryStakeDecision_RewardsInverted ==
    IF get_available_staking_slots(staking_program) > 0
    THEN (IF get_available_rewards(staking_program) # 0 THEN "no_rewards" ELSE "stake")
    ELSE "no_slot"

\* mutant: the slot test is off by one
TryStakeDecision_SlotsOffByOne ==
    IF get_available_staking_slots(staking_program) >= 0
    THEN (IF get_available_rewards(staking_program) = 0 THEN "no_rewards" ELSE "stake")
    ELSE "no_slot"

\* mutant: the rewards are not looked at before staking
TryStakeDecision_NoRewardsCheck ==
    IF get_available_staking_slots(staking_program) > 0
    THEN "stake"
    ELSE "no_slot"

\* what _try_stake_service does: "no_slot" (exit 1), "no_rewards" (exit 0) or "stake"
TryStakeDecision ==
    IF get_available_staking_slots(staking_program) > 0
    THEN (IF get_available_rewards(staking_program) = 0 THEN "no_rewards" ELSE "stake")
    ELSE "no_slot"

\* _try_stake_service
TryStake ==
    /\ pc = "try_stake"
    /\ CASE TryStakeDecision = "no_slot" ->
              Exit(1) /\ UNCHANGED <<batchVars, built>>
         [] TryStakeDecision = "no_rewards" ->
              Exit(0) /\ UNCHANGED <<batchVars, built>>
         [] OTHER ->
              /\ StartBatch(get_stake_txs("engine", staking_program), "stake_exit")
              /\ exit_code' = exit_code
    /\ UNCHANGED <<chain, everest_ids, clock, envVars, exc, locals,
                   sent, receipts, prompts, snap>>

\* "staked successfully"; sys.exit(0)
StakeExit ==
    /\ pc = "stake_exit"
    /\ Exit(0)
    /\ UNCHANGED <<chain, everest_ids, clock, envVars, exc, locals, batchVars, history, snap>>

\* ------------------------------------------------------ the submission loop

\* mutant: the next transaction is sent without waiting for the receipt of this one
SendNextTx_NoWait ==
    /\ pc = "send"
    /\ sent' = Append(sent, txs[tx_i])
    /\ pc' = IF tx_i < Len(txs) THEN "send" ELSE "wait"
    /\ tx_i' = IF tx_i < Len(txs) THEN tx_i + 1 ELSE tx_i
    /\ UNCHANGED <<chain, everest_ids, clock, envVars, exit_code, exc, locals, txs, ret,
                   receipts, built, prompts, snap>>

\* for tx in txs: the next transaction is handed to send_tx_and_wait_for_receipt
SendNextTx ==
    /\ pc = "send"
    /\ sent' = Append(sent, txs[tx_i])
    /\ pc' = "wait"
    /\ UNCHANGED <<chain, everest_ids, clock, envVars, exit_code, exc, locals, batchVars,
                   receipts, built, prompts, snap>>

\* send_tx_and_wait_for_receipt returns: the receipt was received
WaitReceipt ==
    /\ pc = "wait"
    /\ receipts' = Append(receipts, txs[tx_i])
    /\ chain' = ChainAfter(txs[tx_i])
    /\ everest_ids' = IdsAfter(txs[tx_i])
    /\ tx_i' = tx_i + 1
    /\ pc' = IF tx_i = Len(txs) THEN ret ELSE "send"
    /\ UNCHANGED <<clock, envVars, exit_code, exc, locals, txs, ret,
                   sent, built, prompts, snap>>

\* ------------------------------------------------------------- exceptions

\* the blocks that call the ledger, read a key file or read the operator's input
RaisingBlocks ==
    {"parse", "sweep_check", "sweep_warn", "sweep_ask", "sweep_build", "collect",
     "unstake_check", "evict_ack", "unstake_avail", "unstake_confirm", "unstake_build",
     "stake_check", "evict_build", "zero_build", "try_stake"}

\* the local variables a block has bound when one of its calls raises. Collecting the
\* information, get_next_checkpoint_ts raises with nothing bound, get_liveness_period
\* with next_ts bound, get_available_rewards with next_ts, last_ts and now bound;
\* _check_unstaking_availability reads time.time() before its first call, so each of its
\* calls raises with the clock read; every other block binds a variable only after its
\* last call
RaiseLocals ==
    LET keep == [next_ts |-> next_ts, last_ts |-> last_ts, now |-> now, chk_now |-> chk_now]
        nts == get_next_checkpoint_ts(staking_program)
    IN CASE pc = "collect" ->
              {keep,
               [keep EXCEPT !.next_ts = nts],
               [keep EXCEPT !.next_ts = nts,
                            !.last_ts = nts - get_liveness_period(staking_program),
                            !.now = clock]}
         [] pc = "unstake_avail" ->
              {[keep EXCEPT !.chk_now = clock]}
         [] pc = "stake_check" ->
              {keep} \cup
              (IF is_service_staked(staking_program) /\ is_service_evicted(staking_program)
               THEN {[keep EXCEPT !.chk_now = clock]}
               ELSE {})
         [] OTHER -> {keep}

\* a call of the block raises: control passes to the except clause of main(). In the
\* first block the calls that can raise, EthereumApi(...) and EthereumCrypto(...), come
\* after parse_args() has returned
Raise ==
    /\ pc \in RaisingBlocks
    /\ pc = "parse" => argv_form = "ok"
    /\ args_unstake' = IF pc = "parse" THEN ParseBool(argv_unstake) ELSE args_unstake
    /\ \E l \in RaiseLocals :
         /\ next_ts' = l.next_ts
         /\ last_ts' = l.last_ts
         /\ now' = l.now
         /\ chk_now' = l.chk_now
    /\ pc' = "handler"
    /\ exc' = TRUE
    /\ UNCHANGED <<chain, everest_ids, clock, envVars, exit_code, prog_i, sweep_input,
                   can_unstake, available_rewards, user_input, batchVars, history, snap>>

\* send_tx_and_wait_for_receipt raises (signing, broadcast, receipt wait or timeout):
\* the transaction may or may not have been included
SubmitFails ==
    /\ pc = "wait"
    /\ \E landed \in BOOLEAN :
         /\ chain' = IF landed THEN ChainAfter(txs[tx_i]) ELSE chain
         /\ everest_ids' = IF landed THEN IdsAfter(txs[tx_i]) ELSE everest_ids
    /\ pc' = "handler"
    /\ exc' = TRUE
    /\ UNCHANGED <<clock, envVars, exit_code, locals, batchVars, history, snap>>

\* mutant: the handler ends the process with code 0
Handler_ExitZero ==
    /\ pc = "handler"
    /\ \E removed \in BOOLEAN :
         /\ use_staking' = (use_staking /\ ~ removed)
         /\ Exit(IF removed THEN 0 ELSE 1)
    /\ unsets' = unsets + 1
    /\ UNCHANGED <<chain, everest_ids, clock, argv_unstake, argv_form, run, prev, start, harnessVars, exc, locals, batchVars,
                   history, snap>>

\* mutant: the handler goes back to the submission loop when a transaction failed
Handler_Retries ==
    /\ pc = "handler"
    /\ \E removed \in BOOLEAN : use_staking' = (use_staking /\ ~ removed)
    /\ unsets' = unsets + 1
    /\ IF tx_i \in 1..Len(txs)
       THEN pc' = "send" /\ exit_code' = exit_code
       ELSE Exit(1)
    /\ UNCHANGED <<chain, everest_ids, clock, argv_unstake, argv_form, run, prev, start, harnessVars, exc, locals, batchVars,
                   history, snap>>

\* except Exception: dotenv.unset_key(..., "USE_STAKING"); sys.exit(1). The call rewrites
\* the file without the key and returns, or it raises in its turn (the file cannot be
\* read or rewritten): then the key stays, the lines after the call are skipped and the
\* new exception leaves main(), which ends the process with status 1 as well
Handler ==
    /\ pc = "handler"
    /\ \E removed \in BOOLEAN : use_staking' = (use_staking /\ ~ removed)
    /\ unsets' = unsets + 1
    /\ Exit(1)
    /\ UNCHANGED <<chain, everest_ids, clock, argv_unstake, argv_form, run, prev, start, harnessVars, exc, locals, batchVars,
                   history, snap>>

\* ------------------------------------------------------------- environment

\* the points where the script waits for someone: an operator prompt, a receipt
SuspensionPoints == {"sweep_warn", "sweep_ask", "evict_ack", "unstake_confirm", "wait"}

\* time passes, whatever the script is doing: while it waits, while a call is under way,
\* between a reading of time.time() and the end of the block that read it, and after the
\* process has ended
Tick ==
    /\ clock < MaxTime
    /\ clock' = clock + 1
    /\ UNCHANGED <<chain, everest_ids, envVars, pc, exit_code, exc, locals, batchVars,
                   history, snap>>

Next ==
    \/ ParseArgs
    \/ SweepCheck
    \/ SweepWarn
    \/ SweepAsk
    \/ SweepBuild
    \/ SweepNext
    \/ Collect
    \/ UnstakeCheck
    \/ EvictAck
    \/ UnstakeAvail
    \/ UnstakeConfirm
    \/ UnstakeBuild
    \/ UnstakeExit
    \/ StakeCheck
    \/ EvictBuild
    \/ ZeroBuild
    \/ ZeroExit
    \/ TryStake
    \/ StakeExit
    \/ SendNextTx
    \/ WaitReceipt
    \/ Raise
    \/ SubmitFails
    \/ Handler
    \/ Tick

Spec == Init /\ [][Next]_vars

\* a step of the script itself: every action but the passing of time
Step == Next /\ clock' = clock

\* the initial states of the fair specification, less those that differ only in what
\* the script cannot tell apart: bool("False") is bool("True"), and the rewards of
\* Everest are never read
InitLive ==
    /\ Init
    /\ argv_unstake # "False"
    /\ chain["Everest"].rewards = 0

\* the script keeps running: each call returns or raises, each receipt wait returns or
\* fails, and the operator answers each prompt
SpecLive == InitLive /\ [][Next]_vars /\ WF_vars(Step)

\* the script run on chains whose target contract has the example's slots and rewards
InitScenario == InitOver(ScenarioTargetStates)

SpecScenario == InitScenario /\ [][Next]_vars

\* ------------------------------------------------------------- second run

\* the batches, as (kind, contract), whose last transaction has its receipt in rs
Completed(rs) ==
    {[kind |-> rs[i].kind, contract |-> rs[i].contract] :
       i \in {j \in 1..Len(rs) :
                rs[j].k = IF rs[j].kind = "unstake" THEN UnstakeBatchLen ELSE StakeBatchLen}}

\* the operator runs the script again with the same arguments once the first run has
\* ended: a new process, whose only inheritance is the chain and the .env file
Rerun ==
    /\ pc = "done"
    /\ run = 1
    /\ run' = 2
    /\ prev' = Completed(receipts)
    /\ start' = chain
    /\ unsets' = 0
    /\ pc' = "parse"
    /\ exit_code' = -1
    /\ exc' = FALSE
    /\ args_unstake' = FALSE
    /\ prog_i' = 0
    /\ sweep_input' = ""
    /\ next_ts' = 0
    /\ last_ts' = 0
    /\ now' = 0
    /\ chk_now' = -1
    /\ can_unstake' = TRUE
    /\ available_rewards' = 0
    /\ user_input' = ""
    /\ txs' = <<>>
    /\ tx_i' = 0
    /\ ret' = ""
    /\ sent' = <<>>
    /\ receipts' = <<>>
    /\ built' = <<>>
    /\ prompts' = <<>>
    /\ snap' = NoSnap
    /\ UNCHANGED <<chain, everest_ids, clock, use_staking, argv_unstake, argv_form, harnessVars>>

NextTwice == Next \/ Rerun

\* the initial states of the two-run specification: Alpine and CoastalTest go through
\* the same branch of _unstake_old_program, so the service starts off Alpine
InitTwice == Init /\ ~ chain["Alpine"].staked

SpecTwice == InitTwice /\ [][NextTwice]_vars

\* ------------------------------------------------------------ test harness

\* what no function of the harness touches
stakingVars == <<chain, everest_ids, clock, use_staking, argv_unstake, argv_form, unsets, run, prev,
                 start, pc, exit_code, exc, locals, batchVars, history, snap>>

dockerVars == <<d_caller, attempt, d_in, d_outcomes, d_sleeps, d_ret>>
healthVars == <<h_clock, start_monitoring, start_time, metrics, h_ret>>
startVars == <<rounds, dialogue, retries, docker_calls, s_ret>>

\* a test calls check_docker_status(logger, config_path)
CallDocker ==
    /\ hpc = "idle"
    /\ hpc' = "docker_attempt"
    /\ UNCHANGED <<stakingVars, lifeVars, dockerVars, healthVars, startVars>>

\* where check_docker_status returns to
DockerReturn == IF d_caller = "start_service" THEN "start_checked" ELSE "returned"

\* one pass of "for attempt in range(max_retries)": the try block and its except clause,
\* up to the return or the call of time.sleep
DockerAttempt ==
    /\ hpc = "docker_attempt"
    /\ \E in \in AttemptInputs :
         /\ d_in' = in
         /\ d_outcomes' = Append(d_outcomes,
                                 IF AttemptOutcome(in) = "ok" THEN "ok" ELSE "failed")
         /\ IF AttemptOutcome(in) = "ok"
            THEN d_ret' = "True" /\ hpc' = DockerReturn
            ELSE IF attempt = max_retries - 1
            THEN d_ret' = "False" /\ hpc' = DockerReturn
            ELSE d_ret' = d_ret /\ hpc' = "docker_sleep"
    /\ UNCHANGED <<stakingVars, lifeVars, d_caller, attempt, d_sleeps, healthVars, startVars>>

\* time.sleep(retry_delay), then the next pass of the loop, which lists the containers
\* anew
DockerSleep ==
    /\ hpc = "docker_sleep"
    /\ d_sleeps' = d_sleeps + 1
    /\ attempt' = attempt + 1
    /\ d_in' = NoAttempt
    /\ hpc' = "docker_attempt"
    /\ UNCHANGED <<stakingVars, lifeVars, d_caller, d_outcomes, d_ret, healthVars, startVars>>

\* a test calls check_service_health(logger, config_path)
CallHealth ==
    /\ hpc = "idle"
    /\ metrics' = NewMetrics
    /\ start_monitoring' = h_clock
    /\ hpc' = "health_loop"
    /\ UNCHANGED <<stakingVars, lifeVars, dockerVars, h_clock, start_time, h_ret, startVars>>

\* while time.time() - start_monitoring < 120: total_checks += 1; start_time = ...
HealthLoop ==
    /\ hpc = "health_loop"
    /\ IF h_clock - start_monitoring < HealthWindow
       THEN /\ metrics' = [metrics EXCEPT !.total_checks = @ + 1]
            /\ start_time' = h_clock
            /\ hpc' = "health_request"
            /\ h_ret' = h_ret
       ELSE /\ h_ret' = "True"
            /\ hpc' = "returned"
            /\ UNCHANGED <<metrics, start_time>>
    /\ UNCHANGED <<stakingVars, lifeVars, dockerVars, h_clock, start_monitoring, startVars>>

\* mutant: a status code other than 200 is logged and the loop goes on
HealthRequest_GoesOn ==
    /\ hpc = "health_request"
    /\ \E d \in 0..RequestTimeout, r \in Responses :
         /\ h_clock' = h_clock + d
         /\ IF r.error = "None"
            THEN /\ metrics' = [metrics EXCEPT
                                  !.response_time = d,
                                  !.status_code = r.code,
                                  !.successful_checks = IF r.code = StatusOK THEN @ + 1 ELSE @]
                 /\ hpc' = IF d < HealthInterval THEN "health_sleep" ELSE "health_loop"
                 /\ h_ret' = h_ret
            ELSE /\ metrics' = [metrics EXCEPT !.error = r.error]
                 /\ h_ret' = "False"
                 /\ hpc' = "returned"
    /\ UNCHANGED <<stakingVars, lifeVars, dockerVars, start_monitoring, start_time, startVars>>

\* response = requests.get(health_check_url, timeout=10) and what follows, up to the
\* return or the test of the elapsed time; the request takes d seconds, d one of
\* `durations`
HealthRequestOver(durations) ==
    /\ hpc = "health_request"
    /\ \E d \in durations, r \in Responses :
         /\ h_clock' = h_clock + d
         /\ IF r.error = "None"
            THEN /\ metrics' = [metrics EXCEPT
                                  !.response_time = d,
                                  !.status_code = r.code,
                                  !.successful_checks = IF r.code = StatusOK THEN @ + 1 ELSE @]
                 /\ IF r.code = StatusOK
                    THEN /\ hpc' = IF d < HealthInterval THEN "health_sleep" ELSE "health_loop"
                         /\ h_ret' = h_ret
                    ELSE /\ h_ret' = "False"
                         /\ hpc' = "returned"
            ELSE /\ metrics' = [metrics EXCEPT !.error = r.error]
                 /\ h_ret' = "False"
                 /\ hpc' = "returned"
    /\ UNCHANGED <<stakingVars, lifeVars, dockerVars, start_monitoring, start_time, startVars>>

\* a request takes any whole number of seconds up to its timeout
HealthRequest == HealthRequestOver(0..RequestTimeout)

\* time.sleep(5 - elapsed)
HealthSleep ==
    /\ hpc = "health_sleep"
    /\ h_clock' = start_time + HealthInterval
    /\ hpc' = "health_loop"
    /\ UNCHANGED <<stakingVars, lifeVars, dockerVars, start_monitoring, start_time, metrics, h_ret,
                   startVars>>

\* setup_class calls cls.start_service(): pexpect.spawn(...)
CallStart ==
    /\ hpc = "idle"
    /\ \E spawned \in BOOLEAN :
         IF spawned
         THEN dialogue' = "open" /\ hpc' = "start_expect" /\ s_ret' = s_ret
         ELSE dialogue' = "exception" /\ hpc' = "returned" /\ s_ret' = "raised"
    /\ UNCHANGED <<stakingVars, lifeVars, dockerVars, healthVars, rounds, retries, docker_calls>>

\* one pass of "while True": cls.child.expect(patterns, timeout=600), the response or
\* the handler, cls.child.sendline(response)
StartExpect ==
    /\ hpc = "start_expect"
    /\ \E ev \in {"prompt", "raises", "timeout", "eof"} :
         CASE ev = "prompt" ->
                /\ rounds < MaxPrompts
                /\ rounds' = rounds + 1
                /\ UNCHANGED <<hpc, dialogue, s_ret>>
           [] ev = "raises" ->
                /\ dialogue' = "exception"
                /\ s_ret' = "raised"
                /\ hpc' = "returned"
                /\ rounds' = rounds
           [] ev = "timeout" ->
                /\ dialogue' = "timeout"
                /\ s_ret' = "raised"
                /\ hpc' = "returned"
                /\ rounds' = rounds
           [] ev = "eof" ->
                /\ dialogue' = "eof"
                /\ hpc' = "start_init_wait"
                /\ UNCHANGED <<rounds, s_ret>>
    /\ UNCHANGED <<stakingVars, lifeVars, dockerVars, healthVars, retries, docker_calls>>

\* except pexpect.EOF: time.sleep(SERVICE_INIT_WAIT); retries = 5
StartInitWait ==
    /\ hpc = "start_init_wait"
    /\ retries' = StartRetries
    /\ hpc' = "start_loop"
    /\ UNCHANGED <<stakingVars, lifeVars, dockerVars, healthVars, rounds, dialogue, docker_calls, s_ret>>

\* mutant: the loop runs while retries >= 0
StartLoop_OneMore ==
    /\ hpc = "start_loop"
    /\ IF retries >= 0
       THEN /\ d_caller' = "start_service"
            /\ attempt' = 0
            /\ d_in' = NoAttempt
            /\ d_outcomes' = <<>>
            /\ d_sleeps' = 0
            /\ d_ret' = "none"
            /\ hpc' = "docker_attempt"
            /\ s_ret' = s_ret
       ELSE /\ s_ret' = "containers_failed"
            /\ hpc' = "returned"
            /\ UNCHANGED dockerVars
    /\ UNCHANGED <<stakingVars, lifeVars, healthVars, rounds, dialogue, retries, docker_calls>>

\* while retries > 0: check_docker_status(cls.logger, cls.config_path) is called;
\* after the loop, if retries == 0: raise Exception("... containers failed to start")
StartLoop ==
    /\ hpc = "start_loop"
    /\ IF retries > 0
       THEN /\ d_caller' = "start_service"
            /\ attempt' = 0
            /\ d_in' = NoAttempt
            /\ d_outcomes' = <<>>
            /\ d_sleeps' = 0
            /\ d_ret' = "none"
            /\ hpc' = "docker_attempt"
            /\ s_ret' = s_ret
       ELSE /\ s_ret' = "containers_failed"
            /\ hpc' = "returned"
            /\ UNCHANGED dockerVars
    /\ UNCHANGED <<stakingVars, lifeVars, healthVars, rounds, dialogue, retries, docker_calls>>

\* if check_docker_status(...): break, and start_service returns
StartChecked ==
    /\ hpc = "start_checked"
    /\ docker_calls' = Append(docker_calls, d_ret)
    /\ IF d_ret = "True"
       THEN s_ret' = "ok" /\ hpc' = "returned"
       ELSE s_ret' = s_ret /\ hpc' = "start_stop_wait"
    /\ UNCHANGED <<stakingVars, lifeVars, dockerVars, healthVars, rounds, dialogue, retries>>

\* time.sleep(CONTAINER_STOP_WAIT); retries -= 1
StartStopWait ==
    /\ hpc = "start_stop_wait"
    /\ retries' = retries - 1
    /\ hpc' = "start_loop"
    /\ UNCHANGED <<stakingVars, lifeVars, dockerVars, healthVars, rounds, dialogue, docker_calls, s_ret>>

NextHarness ==
    \/ CallDocker
    \/ DockerAttempt
    \/ DockerSleep
    \/ CallHealth
    \/ HealthLoop
    \/ HealthRequest
    \/ HealthSleep
    \/ CallStart
    \/ StartExpect
    \/ StartInitWait
    \/ StartLoop
    \/ StartChecked
    \/ StartStopWait

\* the harness with staking.py not running: one chain, no unstake asked
InitHarness ==
    /\ Init
    /\ \A c \in StakingContracts : ~ chain[c].staked /\ chain[c].rewards = 0
    /\ chain[staking_program].slots = 0
    /\ chain[staking_program].min_dur = 0
    /\ chain[staking_program].next_ts = 1
    /\ chain[staking_program].ts_start = 0
    /\ ~ chain[staking_program].evicted
    /\ argv_unstake = ""
    /\ argv_form = "ok"

SpecHarness == InitHarness /\ [][NextHarness]_vars

\* ------------------------------------------------------- pytest session

\* the fixture setup_test(self, config_path) of a test pytest has not invoked yet, up to
\* the call of setup_class or, with _setup_complete set, up to the yield
setup_test ==
    /\ tpc = "between"
    /\ \E item \in TestItems \ invoked :
         /\ cur' = item
         /\ invoked' = invoked \cup {item}
         /\ test_config_path' = item.config_path
         /\ verdict' = "none"
         /\ IF ~ setup_complete
            THEN base_config_path' = item.config_path /\ tpc' = "setup_class"
            ELSE base_config_path' = base_config_path /\ tpc' = "body"
    /\ UNCHANGED <<stakingVars, hpc, dockerVars, healthVars, startVars, setup_complete,
                   service, setup_ok>>

\* setup_class up to the call of start_service: a statement before
\* "cls._setup_complete = True" raises, or one after it does, or none does. An exception
\* leaves the fixture, and pytest reports an error without running the test
setup_class ==
    /\ tpc = "setup_class"
    /\ \E outcome \in {"raises_before_flag", "raises_after_flag", "ok"} :
         /\ setup_complete' = (outcome # "raises_before_flag")
         /\ tpc' = IF outcome = "ok" THEN "start_service" ELSE "between"
         /\ cur' = IF outcome = "ok" THEN cur ELSE NoTest
         /\ verdict' = IF outcome = "ok" THEN verdict ELSE "error"
    /\ UNCHANGED <<stakingVars, hpc, dockerVars, healthVars, startVars, base_config_path,
                   test_config_path, invoked, service, setup_ok>>

\* cls.start_service(), called by setup_class
setup_class_start_service ==
    /\ tpc = "start_service"
    /\ CallStart

\* start_service has returned or raised: time.sleep(STARTUP_WAIT) and the yield of the
\* fixture, or the exception leaves setup_class and the fixture; the local variables of
\* start_service and check_docker_status are gone
setup_class_return ==
    /\ tpc = "start_service"
    /\ hpc = "returned"
    /\ IF s_ret = "ok"
       THEN /\ setup_ok' = TRUE
            /\ service' = service \cup {base_config_path}
            /\ tpc' = "body"
            /\ UNCHANGED <<cur, verdict>>
       ELSE /\ tpc' = "between"
            /\ cur' = NoTest
            /\ verdict' = "error"
            /\ UNCHANGED <<service, setup_ok>>
    /\ hpc' = "idle"
    /\ d_caller' = "test"
    /\ attempt' = 0
    /\ d_in' = NoAttempt
    /\ d_outcomes' = <<>>
    /\ d_sleeps' = 0
    /\ d_ret' = "none"
    /\ rounds' = 0
    /\ dialogue' = "none"
    /\ retries' = 0
    /\ docker_calls' = <<>>
    /\ s_ret' = "none"
    /\ UNCHANGED <<stakingVars, healthVars, setup_complete, base_config_path,
                   test_config_path, invoked>>

\* the body of test_01_health_check calls check_service_health(logger, self.config_path)
test_01_health_check ==
    /\ tpc = "body"
    /\ cur.test = "test_01_health_check"
    /\ CallHealth

\* the request durations of a session: none, under the interval, the interval, the
\* timeout
SessionDurations == {0, 3, 4, HealthInterval, RequestTimeout}

\* the request of check_service_health, within a session
SessionHealthRequest == HealthRequestOver(SessionDurations)

\* check_service_health has returned: assert status == True, and the test is over. Its
\* local variables are gone; the harness uses time.time() only in differences, and the
\* clock is counted from the next call on
test_01_assert ==
    /\ tpc = "body"
    /\ cur.test = "test_01_health_check"
    /\ hpc = "returned"
    /\ verdict' = IF h_ret = "True" THEN "passed" ELSE "failed"
    /\ tpc' = "between"
    /\ cur' = NoTest
    /\ hpc' = "idle"
    /\ h_clock' = 0
    /\ start_monitoring' = 0
    /\ start_time' = 0
    /\ metrics' = NewMetrics
    /\ h_ret' = "none"
    /\ UNCHANGED <<stakingVars, dockerVars, startVars, setup_complete, base_config_path,
                   test_config_path, invoked, service, setup_ok>>

\* get_service_config(config_path)["container_name"]
container_name(config_path) ==
    IF config_path = "configs/config_modius.json" THEN "optimus" ELSE "traderpearl"

\* what the containers are once stop_service.sh was started with
\* BaseTestService.config_path: as they were, or those of that config down
Stopping == {service, service \ {base_config_path}}

\* the body of test_02_shutdown_logs up to the first wait of stop_service():
\* pexpect.spawn('bash ./stop_service.sh ...') starts the script, or raises, which
\* takes the test to its finally clause
test_02_shutdown_logs ==
    /\ tpc = "body"
    /\ cur.test = "test_02_shutdown_logs"
    /\ hpc = "idle"
    /\ \E spawned \in BOOLEAN :
         IF spawned
         THEN hpc' = "stop_expect" /\ UNCHANGED <<tpc, verdict>>
         ELSE hpc' = hpc /\ tpc' = "finally" /\ verdict' = "failed"
    /\ UNCHANGED <<stakingVars, dockerVars, healthVars, startVars, setup_complete,
                   base_config_path, test_config_path, cur, invoked, service, setup_ok>>

\* process.expect(pexpect.EOF), with timeout=30: the script ends, or the wait raises
\* (pexpect.TIMEOUT); the containers may be down by then
stop_service_expect ==
    /\ tpc = "body"
    /\ hpc = "stop_expect"
    /\ \E s \in Stopping, eof \in BOOLEAN :
         /\ service' = s
         /\ IF eof
            THEN hpc' = "stop_sleep" /\ UNCHANGED <<tpc, verdict>>
            ELSE hpc' = "idle" /\ tpc' = "finally" /\ verdict' = "failed"
    /\ UNCHANGED <<stakingVars, dockerVars, healthVars, startVars, setup_complete,
                   base_config_path, test_config_path, cur, invoked, setup_ok>>

\* time.sleep(30), and stop_service returns; the containers may go down meanwhile
stop_service_sleep ==
    /\ tpc = "body"
    /\ hpc = "stop_sleep"
    /\ \E s \in Stopping : service' = s
    /\ hpc' = "idle"
    /\ tpc' = "containers"
    /\ UNCHANGED <<stakingVars, dockerVars, healthVars, startVars, setup_complete,
                   base_config_path, test_config_path, cur, invoked, setup_ok, verdict>>

\* time.sleep(CONTAINER_STOP_WAIT), during which the containers may go down; then
\* client.containers.list(filters={"name": container_name}), the name being that of the
\* test's own config (self.config_path), and assert len(containers) == 0: a container
\* of that name is up, or docker.from_env() or the listing raises, and the test fails;
\* or none is listed
test_02_containers ==
    /\ tpc = "containers"
    /\ \E s \in Stopping, raises \in BOOLEAN :
         /\ service' = s
         /\ IF ~ raises /\ \A c \in s : container_name(c) # container_name(test_config_path)
            THEN tpc' = "logs" /\ verdict' = verdict
            ELSE tpc' = "finally" /\ verdict' = "failed"
    /\ UNCHANGED <<stakingVars, hpc, dockerVars, healthVars, startVars, setup_complete,
                   base_config_path, test_config_path, cur, invoked, setup_ok>>

\* assert check_shutdown_logs(BaseTestService.logger) == True
test_02_logs ==
    /\ tpc = "logs"
    /\ \E logs_ok \in BOOLEAN : verdict' = IF logs_ok THEN "passed" ELSE "failed"
    /\ tpc' = "finally"
    /\ UNCHANGED <<stakingVars, hpc, dockerVars, healthVars, startVars, setup_complete,
                   base_config_path, test_config_path, cur, invoked, service, setup_ok>>

\* finally: if BaseTestService._setup_complete: teardown_class(), which catches its own
\* exceptions, and _setup_complete = False; the test is over
test_02_finally ==
    /\ tpc = "finally"
    /\ IF setup_complete
       THEN setup_complete' = FALSE /\ setup_ok' = FALSE
       ELSE UNCHANGED <<setup_complete, setup_ok>>
    /\ tpc' = "between"
    /\ cur' = NoTest
    /\ UNCHANGED <<stakingVars, hpc, dockerVars, healthVars, startVars, base_config_path,
                   test_config_path, invoked, service, verdict>>

\* a pytest session over TestAgentService: the tests in any order, each at most once
NextSession ==
    \/ setup_test
    \/ setup_class
    \/ setup_class_start_service
    \/ StartExpect
    \/ StartInitWait
    \/ StartLoop
    \/ DockerAttempt
    \/ DockerSleep
    \/ StartChecked
    \/ StartStopWait
    \/ setup_class_return
    \/ test_01_health_check
    \/ HealthLoop
    \/ SessionHealthRequest
    \/ HealthSleep
    \/ test_01_assert
    \/ test_02_shutdown_logs
    \/ stop_service_expect
    \/ stop_service_sleep
    \/ test_02_containers
    \/ test_02_logs
    \/ test_02_finally

SpecSession == InitHarness /\ [][NextSession]_vars

\* ------------------------------------------------------------------ claims

Done == pc = "done"

\* main() has collected its information: the decision procedure has started
EngineStarted == now > 0

FromEngine(t) == t.phase = "engine"
BatchFromEngine(b) == Len(b) > 0 /\ b[1].phase = "engine"

\* what the decision procedure (not the sweep) submitted, got receipts for, built, asked
EngineSent == SelectSeq(sent, FromEngine)
EngineReceipts == SelectSeq(receipts, FromEngine)
EngineBuilt == SelectSeq(built, BatchFromEngine)
EnginePrompts == SelectSeq(prompts, FromEngine)

StakeBatch == [k \in 1..StakeBatchLen |->
                 [phase |-> "engine", kind |-> "stake", contract |-> staking_program, k |-> k]]
UnstakeBatch == [k \in 1..UnstakeBatchLen |->
                   [phase |-> "engine", kind |-> "unstake", contract |-> staking_program, k |-> k]]

IsStakeTx(t) == t.kind = "stake"
IsUnstakeTx(t) == t.kind = "unstake"

\* the duration lock as _check_unstaking_availability saw it on the target contract:
\* now - stakeStartTimestamp < minStakingDuration and availableRewards > 0
LockBlocked ==
    /\ chk_now >= 0
    /\ chk_now - snap.ts_start < snap.min_dur
    /\ snap.rewards > 0

\* C1: no unstake requested, snapshot not staked, availableSlots > 0 and
\* availableRewards > 0: in a run that ends without an exception the engine has
\* built one batch, the stake batch, submitted every transaction of it in order,
\* received every receipt, submitted no unstake transaction, and exits 0.
C1_StakeWhenFree ==
    (  Done /\ ~ exc /\ EngineStarted /\ ~ args_unstake
    /\ ~ snap.staked /\ snap.slots > 0 /\ snap.rewards > 0 )
    => /\ exit_code = 0
       /\ EngineBuilt = <<StakeBatch>>
       /\ EngineSent = StakeBatch
       /\ EngineReceipts = StakeBatch

C1_Witness ==
    /\ Done /\ ~ exc /\ ~ args_unstake
    /\ ~ snap.staked /\ snap.slots > 0 /\ snap.rewards > 0
    /\ exit_code = 0
    /\ EngineSent = StakeBatch

\* C2: no unstake requested, snapshot staked, not evicted, availableRewards > 0:
\* the engine never builds or submits a transaction, and a run that ends without an
\* exception exits 0.
C2_RemainsStaked ==
    (  EngineStarted /\ ~ args_unstake
    /\ snap.staked /\ ~ snap.evicted /\ snap.rewards > 0 )
    => /\ EngineBuilt = <<>>
       /\ EngineSent = <<>>
       /\ (Done /\ ~ exc => exit_code = 0)

C2_Witness ==
    /\ Done /\ ~ exc /\ EngineStarted /\ ~ args_unstake
    /\ snap.staked /\ ~ snap.evicted /\ snap.rewards > 0
    /\ exit_code = 0

\* C3: no unstake requested, snapshot staked, not evicted, availableRewards = 0:
\* no stake is ever attempted, and a run that ends without an exception has built and
\* submitted exactly the unstake batch, with every receipt, and exits 0.
C3_UnstakeWhenNoRewards ==
    (  EngineStarted /\ ~ args_unstake
    /\ snap.staked /\ ~ snap.evicted /\ snap.rewards = 0 )
    => /\ pc # "try_stake"
       /\ SelectSeq(EngineSent, IsStakeTx) = <<>>
       /\ (Done /\ ~ exc =>
             /\ exit_code = 0
             /\ EngineBuilt = <<UnstakeBatch>>
             /\ EngineSent = UnstakeBatch
             /\ EngineReceipts = UnstakeBatch)

C3_Witness ==
    /\ Done /\ ~ exc /\ EngineStarted /\ ~ args_unstake
    /\ snap.staked /\ ~ snap.evicted /\ snap.rewards = 0
    /\ exit_code = 0
    /\ EngineSent = UnstakeBatch

\* C4: no unstake requested, snapshot not staked, availableSlots <= 0: the engine
\* never builds or submits a transaction and every run that ends exits non-zero,
\* whatever availableRewards is.
C4_NoSlot ==
    (  EngineStarted /\ ~ args_unstake /\ ~ snap.staked /\ snap.slots <= 0 )
    => /\ EngineBuilt = <<>>
       /\ EngineSent = <<>>
       /\ (Done => exit_code # 0)

C4_Witness ==
    /\ Done /\ ~ exc /\ EngineStarted /\ ~ args_unstake
    /\ ~ snap.staked /\ snap.slots <= 0 /\ snap.rewards > 0
    /\ exit_code = 1

\* C5: no unstake requested, snapshot not staked, availableSlots > 0 and
\* availableRewards = 0: the engine never builds or submits a transaction and a run
\* that ends without an exception exits 0.
C5_NoRewardsNoStake ==
    (  EngineStarted /\ ~ args_unstake
    /\ ~ snap.staked /\ snap.slots > 0 /\ snap.rewards = 0 )
    => /\ EngineBuilt = <<>>
       /\ EngineSent = <<>>
       /\ (Done /\ ~ exc => exit_code = 0)

C5_Witness ==
    /\ Done /\ ~ exc /\ EngineStarted /\ ~ args_unstake
    /\ ~ snap.staked /\ snap.slots > 0 /\ snap.rewards = 0
    /\ exit_code = 0

\* C6 as stated: a snapshot staked and evicted, no unstake requested: a run that
\* ends without an exception has always submitted the unstake batch, whatever
\* availableRewards is.
C6_AlwaysUnstakesEvicted ==
    (  Done /\ ~ exc /\ EngineStarted /\ ~ args_unstake
    /\ snap.staked /\ snap.evicted )
    => /\ Len(EngineSent) >= UnstakeBatchLen
       /\ SubSeq(EngineSent, 1, UnstakeBatchLen) = UnstakeBatch

\* the engine's submissions and exit code after the unstake batch of the eviction
\* branch, by the stake-attempt rule: slots, then rewards, then the stake batch
RestakeOutcome ==
    IF snap.slots <= 0
    THEN exit_code = 1 /\ EngineSent = UnstakeBatch
    ELSE IF snap.rewards = 0
    THEN exit_code = 0 /\ EngineSent = UnstakeBatch
    ELSE /\ exit_code = 0
         /\ EngineSent = UnstakeBatch \o StakeBatch
         /\ EngineReceipts = UnstakeBatch \o StakeBatch

\* C6, amended: a snapshot staked and evicted, no unstake requested: when the duration
\* lock blocks, the engine submits nothing and the run ends non-zero (at once, or
\* through the handler when a call of the check raised); otherwise it submits
\* the unstake batch first, attempts the stake only once every receipt of that batch
\* is in, and a run that ends without an exception ends as the stake-attempt rule says.
C6_EvictedUnstakeThenRestake ==
    (  EngineStarted /\ ~ args_unstake /\ snap.staked /\ snap.evicted )
    => /\ LockBlocked =>
            /\ EngineBuilt = <<>> /\ EngineSent = <<>>
            /\ Done \/ (exc /\ pc = "handler")
            /\ Done => exit_code # 0
       /\ pc = "try_stake" => EngineReceipts = UnstakeBatch
       /\ SelectSeq(EngineSent, IsStakeTx) # <<>> =>
            /\ Len(EngineReceipts) >= UnstakeBatchLen
            /\ SubSeq(EngineReceipts, 1, UnstakeBatchLen) = UnstakeBatch
       /\ (Done /\ ~ exc /\ ~ LockBlocked) =>
            /\ Len(EngineReceipts) >= UnstakeBatchLen
            /\ SubSeq(EngineReceipts, 1, UnstakeBatchLen) = UnstakeBatch
            /\ RestakeOutcome

C6_Witness ==
    /\ Done /\ ~ exc /\ EngineStarted /\ ~ args_unstake
    /\ snap.staked /\ snap.evicted /\ snap.rewards > 0
    /\ exit_code = 0
    /\ EngineSent = UnstakeBatch \o StakeBatch

\* C7: whenever _check_unstaking_availability, called by the engine on the target
\* contract for an explicit or an eviction-triggered unstake, finds
\* now - stakeStartTimestamp < minStakingDuration and availableRewards > 0, the run has
\* ended with a non-zero exit code and no unstake batch was built or submitted; when a
\* call of the check raised instead, the run is in the handler or has ended non-zero,
\* and no unstake batch was built either.
C7_DurationLock ==
    (EngineStarted /\ LockBlocked)
    => /\ Done \/ (exc /\ pc = "handler")
       /\ Done => exit_code # 0
       /\ EngineBuilt = <<>>
       /\ EngineSent = <<>>

C7_Witness ==
    /\ Done /\ ~ exc /\ args_unstake /\ snap.staked /\ snap.evicted
    /\ LockBlocked
    /\ exit_code = 1
    /\ EngineSent = <<>>

\* C8: unstake requested and the snapshot not staked: the engine never builds or
\* submits a transaction and never prompts the operator, and a run that ends without
\* an exception exits 0, whatever isEvicted, the slots, the rewards and the
\* checkpoint time are.
C8_AlreadyUnstaked ==
    (EngineStarted /\ args_unstake /\ ~ snap.staked)
    => /\ EngineBuilt = <<>>
       /\ EngineSent = <<>>
       /\ EnginePrompts = <<>>
       /\ (Done /\ ~ exc => exit_code = 0)

C8_Witness ==
    /\ Done /\ ~ exc /\ EngineStarted /\ args_unstake
    /\ ~ snap.staked /\ snap.evicted /\ snap.rewards > 0 /\ now < snap.next_ts
    /\ exit_code = 0

IsConfirmPrompt(q) == q.site = "confirm"

\* C9: unstake requested and the time collected by main() before nextCheckpointTimestamp:
\* the engine builds or submits an unstake transaction only after the operator was
\* asked and answered "yes" or "y" (in any case); once the operator has answered
\* anything else the run has ended non-zero with no transaction built or submitted.
C9_ConfirmBeforeCheckpoint ==
    (EngineStarted /\ args_unstake /\ now < snap.next_ts)
    => /\ (pc = "unstake_build" \/ EngineBuilt # <<>> \/ EngineSent # <<>>) =>
            /\ SelectSeq(EnginePrompts, IsConfirmPrompt) # <<>>
            /\ user_input \in {"yes", "y"}
       /\ (SelectSeq(EnginePrompts, IsConfirmPrompt) # <<>> /\ user_input \notin {"yes", "y"}) =>
            /\ Done
            /\ exit_code # 0
            /\ EngineBuilt = <<>>
            /\ EngineSent = <<>>

C9_Witness ==
    /\ Done /\ ~ exc /\ args_unstake /\ snap.staked /\ now < snap.next_ts
    /\ SelectSeq(EnginePrompts, IsConfirmPrompt) # <<>>
    /\ user_input = "y"
    /\ EngineSent = UnstakeBatch
    /\ exit_code = 0

\* C10: unstake requested, snapshot staked, the duration lock not blocking, and the
\* time collected by main() not before nextCheckpointTimestamp or the operator's
\* answer a confirmation: a run that ends without an exception has built and
\* submitted exactly the unstake batch, received every receipt, and exits 0.
C10_UnstakeSubmitted ==
    (  Done /\ ~ exc /\ EngineStarted /\ args_unstake /\ snap.staked
    /\ ~ LockBlocked
    /\ (now >= snap.next_ts \/ user_input \in {"yes", "y"}) )
    => /\ exit_code = 0
       /\ EngineBuilt = <<UnstakeBatch>>
       /\ EngineSent = UnstakeBatch
       /\ EngineReceipts = UnstakeBatch

C10_Witness ==
    /\ Done /\ ~ exc /\ EngineStarted /\ args_unstake /\ snap.staked
    /\ ~ LockBlocked /\ now >= snap.next_ts
    /\ EnginePrompts = <<>>
    /\ exit_code = 0
    /\ EngineReceipts = UnstakeBatch

\* ------------------------------------------------- claims about the sweep

FromSweep(t) == t.phase = "sweep"
BatchFromSweep(b) == Len(b) > 0 /\ b[1].phase = "sweep"

SweepSent == SelectSeq(sent, FromSweep)
SweepReceipts == SelectSeq(receipts, FromSweep)
SweepBuilt == SelectSeq(built, BatchFromSweep)

\* the batches of a sequence of batches, one after the other
RECURSIVE Flatten(_)
Flatten(bs) == IF bs = <<>> THEN <<>> ELSE Head(bs) \o Flatten(Tail(bs))

\* the place of a deprecated program in the table
ProgIndex(p) == CHOOSE i \in 1..Len(OLD_STAKING_PROGRAMS) : OLD_STAKING_PROGRAMS[i] = p

\* the service is still staked on the deprecated program p
StillStakedOn(p) == IF p = "Everest" THEN service_id \in everest_ids ELSE chain[p].staked

\* C11: no transaction of the engine precedes one of the sweep; before main() has
\* collected the target contract's information the engine has built and submitted
\* nothing and read nothing; once it has, the sweep has gone through the whole table,
\* every batch it built was submitted whole with every receipt received, and the
\* service is staked on no deprecated program.
C11_SweepBeforeEngine ==
    /\ \A i, j \in 1..Len(sent) :
         i < j => ~ (sent[i].phase = "engine" /\ sent[j].phase = "sweep")
    /\ ~ EngineStarted =>
         EngineBuilt = <<>> /\ EngineSent = <<>> /\ snap = NoSnap
    /\ EngineStarted =>
         /\ prog_i = Len(OLD_STAKING_PROGRAMS) + 1
         /\ SweepSent = Flatten(SweepBuilt)
         /\ SweepReceipts = SweepSent
         /\ \A i \in 1..Len(OLD_STAKING_PROGRAMS) : ~ StillStakedOn(OLD_STAKING_PROGRAMS[i])

C11_Witness ==
    /\ Done /\ ~ exc
    /\ Len(SweepBuilt) = 2
    /\ SweepReceipts = Flatten(SweepBuilt)
    /\ Len(EngineReceipts) > 0

\* the operator has just refused to unstake from the deprecated program p
SweepRefused(p) ==
    /\ prog_i \in 1..Len(OLD_STAKING_PROGRAMS)
    /\ OLD_STAKING_PROGRAMS[prog_i] = p
    /\ prompts # <<>>
    /\ prompts[Len(prompts)] = [phase |-> "sweep", site |-> "ask", contract |-> p]
    /\ sweep_input \notin {"yes", "y"}

\* C13: a sweep batch for a program is built and submitted only after the operator was
\* asked about that program and answered "yes" or "y" (in any case); once the operator
\* has answered anything else the run has ended with a non-zero code, no transaction
\* was submitted for that program or a later one, and the engine has not started.
C13_SweepConfirmation ==
    /\ pc = "sweep_build" => sweep_input \in {"yes", "y"}
    /\ \A i \in 1..Len(SweepBuilt) :
         \E q \in 1..Len(prompts) :
           prompts[q] = [phase |-> "sweep", site |-> "ask",
                         contract |-> SweepBuilt[i][1].contract]
    /\ \A i \in 1..Len(SweepSent) :
         \E b \in 1..Len(SweepBuilt) : SweepSent[i].contract = SweepBuilt[b][1].contract
    /\ \A p \in {OLD_STAKING_PROGRAMS[i] : i \in 1..Len(OLD_STAKING_PROGRAMS)} :
         SweepRefused(p) =>
           /\ Done
           /\ exit_code # 0
           /\ ~ EngineStarted
           /\ EngineSent = <<>>
           /\ \A i \in 1..Len(sent) : ProgIndex(sent[i].contract) < ProgIndex(p)

C13_Witness ==
    /\ SweepRefused("Alpine")
    /\ Done
    /\ exit_code = 1
    /\ SweepReceipts = [k \in 1..UnstakeBatchLen |->
                          [phase |-> "sweep", kind |-> "unstake", contract |-> "Everest", k |-> k]]

\* ------------------------------------------------------------ exit codes

\* the run ended on the sweep's "cannot be unstaked yet" warning
SweepLockAbort ==
    /\ prompts # <<>>
    /\ prompts[Len(prompts)].site = "warn"

\* the operator refused a sweep unstake
SweepRefusedAny ==
    \E i \in 1..Len(OLD_STAKING_PROGRAMS) : SweepRefused(OLD_STAKING_PROGRAMS[i])

\* the operator refused the engine's unstake
EngineRefused ==
    /\ SelectSeq(EnginePrompts, IsConfirmPrompt) # <<>>
    /\ user_input \notin {"yes", "y"}

\* the stake attempt found no free slot
NoFreeSlot ==
    /\ EngineStarted /\ ~ exc /\ ~ args_unstake
    /\ snap.slots <= 0
    /\ ~ snap.staked \/ (snap.evicted /\ ~ LockBlocked)

\* parse_args rejected the command line
ParseRejected == argv_form \in {"missing", "invalid"}

\* C14 as stated: a run that ended exits 0 exactly when it was not aborted (lock in the
\* sweep or the engine, operator refusal, no free slot) and did not fail (an exception,
\* or a command line that parse_args rejects).
C14_ExitCodeContract ==
    Done =>
      ( exit_code = 0 <=>
          ~ ( ParseRejected \/ SweepLockAbort \/ SweepRefusedAny \/ LockBlocked
              \/ EngineRefused \/ NoFreeSlot \/ exc ) )

\* C14, amended: a run that ended exits with 0, 1 or the 2 of parse_args, and with 0
\* exactly when it did not fail (no exception, no rejected command line) and was not
\* aborted by an operator refusal, the engine's duration lock or a missing free slot;
\* the sweep's lock-blocked abort exits 0.
C14_ExitCodeButSweepLock ==
    Done =>
      /\ exit_code \in {0, 1, ArgparseExitCode}
      /\ exit_code = 0 <=>
           ~ ( ParseRejected \/ SweepRefusedAny \/ LockBlocked \/ EngineRefused
               \/ NoFreeSlot \/ exc )
      /\ SweepLockAbort => exit_code = 0 /\ ~ EngineStarted /\ sent = SweepReceipts

C14_Witness ==
    /\ Done
    /\ SweepLockAbort
    /\ prog_i = 3
    /\ exit_code = 0

\* ---------------------------------------------------------- submission

\* C15: at every moment at most one submitted transaction has no receipt, the receipts
\* came in the order of submission, and the transactions were submitted in the order
\* of the batches built, each batch in its own order.
C15_OneInFlight ==
    /\ Len(receipts) <= Len(sent)
    /\ Len(sent) <= Len(receipts) + 1
    /\ receipts = SubSeq(sent, 1, Len(receipts))
    /\ Len(sent) <= Len(Flatten(built))
    /\ sent = SubSeq(Flatten(built), 1, Len(sent))

C15_Witness ==
    /\ pc = "wait"
    /\ Len(built) = 3
    /\ tx_i = 2
    /\ Len(sent) = Len(receipts) + 1

NoDuplicate(q) == \A i, j \in 1..Len(q) : i # j => q[i] # q[j]

\* C16: once an exception was raised nothing more is built, submitted or confirmed and
\* the run ends with a non-zero code; no transaction is submitted twice in a run.
C16_NoRetry ==
    /\ [](NoDuplicate(sent))
    /\ []((Done /\ exc) => exit_code # 0)
    /\ [](exc => pc \in {"handler", "done"})
    /\ [][exc => (sent' = sent /\ built' = built /\ receipts' = receipts)]_vars

C16_Witness ==
    /\ Done /\ exc
    /\ exit_code = 1
    /\ Len(receipts) = 1
    /\ Len(sent) = 2
    /\ Len(built) = 1

\* ------------------------------------------------------------ precedence

\* C20: no unstake requested, snapshot staked and evicted with availableRewards = 0:
\* the zero-rewards branch is never taken; the unstake batch is followed by
\* _try_stake_service, and a run that ends without an exception has submitted exactly
\* the unstake batch and exits 1 when no slot is free, else 0 (no rewards to stake for).
C20_EvictionBeforeZeroRewards ==
    (  EngineStarted /\ ~ args_unstake
    /\ snap.staked /\ snap.evicted /\ snap.rewards = 0 )
    => /\ pc \notin {"zero_build", "zero_exit"}
       /\ EngineBuilt # <<>> => ret = "try_stake"
       /\ (Done /\ ~ exc) =>
            /\ EngineSent = UnstakeBatch
            /\ EngineReceipts = UnstakeBatch
            /\ exit_code = IF snap.slots <= 0 THEN 1 ELSE 0

C20_Witness ==
    /\ Done /\ ~ exc /\ EngineStarted /\ ~ args_unstake
    /\ snap.staked /\ snap.evicted /\ snap.rewards = 0 /\ snap.slots <= 0
    /\ EngineReceipts = UnstakeBatch
    /\ exit_code = 1

\* -------------------------------------------------------------- snapshot

\* the duration lock on the snapshot at instant t
LockedAt(t) == t - snap.ts_start < snap.min_dur /\ snap.rewards > 0

\* C19: when an explicit unstake got past the duration check, there is one instant of
\* the engine's run at which the snapshot yields both of the tests as the engine took
\* them: the lock not blocking, and the checkpoint test as main() evaluated it.
C19_SingleSnapshot ==
    (EngineStarted /\ args_unstake /\ chk_now >= 0 /\ ~ LockBlocked)
    => \E t \in now..chk_now :
         /\ ~ LockedAt(t)
         /\ (t < snap.next_ts) <=> (now < snap.next_ts)

\* -------------------------------------------------------------- .env file

\* C17 as stated: a run in which an exception reached the handler of main() ends with
\* the key USE_STAKING cleared by exactly one call of dotenv.unset_key and with a
\* non-zero code; the key is never unset twice.
C17_HandlerClearsFlag ==
    /\ unsets <= 1
    /\ exc => pc \in {"handler", "done"}
    /\ (Done /\ exc) => (unsets = 1 /\ ~ use_staking /\ exit_code # 0)

\* ------------------------------------------------------------ sweep lock

\* the service is staked on the deprecated program p, whose minimum staking duration
\* has not elapsed and which still has rewards
OldProgramLocked(p) ==
    /\ StillStakedOn(p)
    /\ clock - chain[p].ts_start < chain[p].min_dur
    /\ chain[p].rewards > 0

\* nothing was built or submitted for p, the sweep has not gone past p and is not
\* asking about p, and the engine has not started
SweepHeldAt(p) ==
    /\ \A i \in 1..Len(SweepBuilt) : SweepBuilt[i][1].contract # p
    /\ \A i \in 1..Len(sent) : sent[i].contract # p
    /\ prog_i <= ProgIndex(p)
    /\ ~ (prog_i = ProgIndex(p) /\ pc \in {"sweep_ask", "sweep_build"})
    /\ ~ EngineStarted

\* the run ended on the warning about p
WarnedAbout(p) ==
    /\ prompts # <<>>
    /\ prompts[Len(prompts)] = [phase |-> "sweep", site |-> "warn", contract |-> p]

\* C12 as stated: for every program of the table the service is staked on and that is
\* lock-blocked, no unstake transaction is submitted for it, the sweep stops there and
\* the engine never runs.
C12_SweepLockEveryProgram ==
    \A i \in 1..Len(OLD_STAKING_PROGRAMS) :
      OldProgramLocked(OLD_STAKING_PROGRAMS[i]) => SweepHeldAt(OLD_STAKING_PROGRAMS[i])

\* C12, amended: the same for Alpine and CoastalTest, the programs whose staked state
\* is read with is_service_staked; the warning ends the run before the engine starts;
\* Everest is never lock-checked.
C12_SweepLockButEverest ==
    \A i \in 1..Len(OLD_STAKING_PROGRAMS) :
      LET p == OLD_STAKING_PROGRAMS[i]
      IN /\ (p # "Everest" /\ OldProgramLocked(p)) => SweepHeldAt(p)
         /\ WarnedAbout(p) => (p # "Everest" /\ Done /\ SweepHeldAt(p))

C12_Witness ==
    /\ Done
    /\ WarnedAbout("CoastalTest")
    /\ OldProgramLocked("CoastalTest")
    /\ Len(SweepReceipts) = UnstakeBatchLen

\* ------------------------------------------------------------ idempotence

\* C18: in a second run with the same arguments, on the chain as the first run left
\* it, no transaction is submitted of a stake batch on a contract on which the first
\* run saw its stake batch confirmed in full, nor of an unstake batch on a contract on
\* which the first run saw its unstake batch confirmed in full.
C18_Idempotent ==
    run = 2 =>
      \A i \in 1..Len(sent) :
        [kind |-> sent[i].kind, contract |-> sent[i].contract] \notin prev

\* a second run that submits transactions after a first run that completed a batch
C18_Witness ==
    /\ run = 2
    /\ Done
    /\ prev # {}
    /\ Len(receipts) > 0
    /\ C18_Idempotent

\* ------------------------------------------------------ batches per run

\* the engine submitted a transaction of an unstake batch and one of a stake batch
BothKinds ==
    \E i, j \in 1..Len(EngineSent) : IsUnstakeTx(EngineSent[i]) /\ IsStakeTx(EngineSent[j])

\* C21 as stated: the engine builds at most one batch, and never submits both an
\* unstake transaction and a stake transaction.
C21_OneBatchPerRun ==
    /\ Len(EngineBuilt) <= 1
    /\ ~ BothKinds

\* C21, amended: the engine builds at most one batch, except on the eviction branch
\* (no unstake requested, snapshot staked and evicted), which builds the unstake batch
\* and, once every receipt of it is in, may build the stake batch; only there are
\* transactions of both kinds submitted.
C21_OneBatchButEviction ==
    /\ Len(EngineBuilt) <= 2
    /\ BothKinds => Len(EngineBuilt) = 2
    /\ Len(EngineBuilt) = 2 =>
         /\ ~ args_unstake /\ snap.staked /\ snap.evicted
         /\ EngineBuilt = <<UnstakeBatch, StakeBatch>>
         /\ Len(EngineReceipts) >= UnstakeBatchLen
         /\ SubSeq(EngineReceipts, 1, UnstakeBatchLen) = UnstakeBatch

C21_Witness ==
    /\ Done /\ ~ exc
    /\ exit_code = 0
    /\ Len(EngineBuilt) = 2
    /\ EngineSent = UnstakeBatch \o StakeBatch
    /\ EngineReceipts = EngineSent

\* ------------------------------------------------------- unstake argument

\* C22 as stated: once the arguments are parsed, the unstake path is taken exactly when
\* the sixth argument is True; with False the stake path is taken.
C22_UnstakeArgParsed ==
    pc # "parse" =>
      /\ argv_unstake = "True" => args_unstake
      /\ argv_unstake = "False" => ~ args_unstake

\* ----------------------------------------------------------- USE_STAKING

\* C25: as long as no exception was raised USE_STAKING is as the run found it and
\* dotenv.unset_key was not called; in particular every run that ends through a
\* sys.exit of a business rule leaves it set.
C25_FlagOnlyClearedOnException ==
    /\ ~ exc => (use_staking /\ unsets = 0)
    /\ (Done /\ ~ exc) => (exit_code \in {0, 1, ArgparseExitCode} /\ use_staking)

\* a run ended by the operator's refusal of the checkpoint warning
C25_Witness ==
    /\ Done /\ ~ exc
    /\ exit_code = 1
    /\ args_unstake
    /\ user_input = "no"
    /\ use_staking /\ unsets = 0

\* ------------------------------------------------------- unstake requested

\* C26: when unstake is requested, no stake batch is built and no stake transaction
\* is submitted, and _try_stake_service is never entered.
C26_NoStakeWhenUnstakeRequested ==
    (pc # "parse" /\ args_unstake) =>
      /\ \A i \in 1..Len(sent) : ~ IsStakeTx(sent[i])
      /\ \A i \in 1..Len(built) : \A k \in 1..Len(built[i]) : ~ IsStakeTx(built[i][k])
      /\ pc \notin {"stake_check", "evict_build", "zero_build", "try_stake", "stake_exit"}

\* an unstake run on a contract with a free slot and rewards, where a stake would pass
C26_Witness ==
    /\ Done /\ ~ exc
    /\ args_unstake
    /\ EngineReceipts = UnstakeBatch
    /\ get_available_staking_slots(staking_program) > 0
    /\ get_available_rewards(staking_program) > 0

\* ----------------------------------------------- eviction with no free slot

\* C27: no unstake requested, snapshot staked and evicted, duration lock not blocking,
\* no free slot when _try_stake_service is entered: a run that ends without an
\* exception exits non-zero with the unstake batch built, submitted and confirmed, no
\* stake transaction submitted, and the service not staked.
C27_EvictionNoSlot ==
    (  Done /\ ~ exc /\ EngineStarted /\ ~ args_unstake
    /\ snap.staked /\ snap.evicted /\ ~ LockBlocked
    /\ get_available_staking_slots(staking_program) <= 0 )
    => /\ exit_code # 0
       /\ EngineBuilt = <<UnstakeBatch>>
       /\ EngineSent = UnstakeBatch
       /\ EngineReceipts = UnstakeBatch
       /\ ~ is_service_staked(staking_program)

C27_Witness ==
    /\ Done /\ ~ exc /\ EngineStarted /\ ~ args_unstake
    /\ snap.staked /\ snap.evicted
    /\ get_available_staking_slots(staking_program) <= 0
    /\ exit_code = 1
    /\ EngineReceipts = UnstakeBatch
    /\ ~ is_service_staked(staking_program)

\* -------------------------------------------------------- example scenario

\* the run began as the example says: member of Everest, not staked on Alpine,
\* CoastalTest or the target, two free slots, 500 available rewards, no unstake asked
ScenarioStart ==
    /\ start["Everest"].staked
    /\ ~ start["Alpine"].staked
    /\ ~ start["CoastalTest"].staked
    /\ ~ start[staking_program].staked
    /\ start[staking_program].slots = ScenarioSlots
    /\ start[staking_program].rewards = ScenarioRewards
    /\ argv_unstake = ""
    /\ argv_form = "ok"

EverestBatch == get_unstake_txs("sweep", "Everest")

\* C23: in the example, no stake transaction is submitted before every receipt of the
\* Everest unstake batch is in, and a run that ends without an exception and in which
\* the operator did not refuse the sweep's question has built exactly the Everest
\* unstake batch and then one stake batch on the target, submitted and confirmed
\* them in that order, and exits 0.
C23_EverestThenStake ==
    ScenarioStart =>
      /\ (\E i \in 1..Len(sent) : IsStakeTx(sent[i])) =>
           (Len(receipts) >= Len(EverestBatch)
            /\ SubSeq(receipts, 1, Len(EverestBatch)) = EverestBatch)
      /\ (Done /\ ~ exc /\ ~ SweepRefused("Everest")) =>
           /\ built = <<EverestBatch, StakeBatch>>
           /\ sent = EverestBatch \o StakeBatch
           /\ receipts = sent
           /\ exit_code = 0

C23_Witness ==
    /\ ScenarioStart
    /\ Done /\ ~ exc
    /\ sent = EverestBatch \o StakeBatch
    /\ receipts = sent
    /\ exit_code = 0
    /\ ~ (service_id \in everest_ids)
    /\ is_service_staked(staking_program)

\* ------------------------------------------------------------ termination

\* C24: an answer of the operator or a receipt is taken only at an operator prompt or
\* a receipt wait, every other block being a call that returns or raises; every run
\* ends with an exit code (0, 1 or the 2 of parse_args); the check of the sweep is
\* entered (by a step of the script) once for each program of the table, in order, so
\* at most three times; the sweep builds at most three batches and the engine at most
\* two.
C24_Terminates ==
    /\ <>(Done /\ exit_code \in {0, 1, ArgparseExitCode})
    /\ [][(prompts' # prompts \/ receipts' # receipts) => pc \in SuspensionPoints]_vars
    /\ [][(pc' = "sweep_check" /\ clock' = clock) =>
            (prog_i' = prog_i + 1 /\ prog_i' <= Len(OLD_STAKING_PROGRAMS))]_vars
    /\ [](Len(SweepBuilt) <= Len(OLD_STAKING_PROGRAMS))
    /\ [](Len(EngineBuilt) <= 2)

\* a run that went through the whole table and two engine batches, and ended
C24_Witness ==
    /\ Done
    /\ exit_code \in {0, 1}
    /\ Len(SweepBuilt) = Len(OLD_STAKING_PROGRAMS)
    /\ Len(EngineBuilt) = 2
    /\ clock = MaxTime

\* ------------------------------------------------------ check_docker_status

\* the conditions of the claim on what Docker answered in an attempt: a container of
\* the name exists, one is listed as running, every listed one has status "running",
\* and no call raised
AttemptPasses(in) ==
    /\ Len(in.all) >= 1
    /\ Len(in.running) >= 1
    /\ \A i \in 1..Len(in.running) : in.running[i] = "running"
    /\ in.fault # "client"
    /\ ~ (in.fault = "logs" /\ LogsRead(in))

\* C28: check_docker_status makes at most 3 attempts; an attempt passes exactly when
\* what Docker answered meets the conditions; it returns True at the first attempt that
\* passes and False exactly when 3 attempts have failed; it has slept once after each
\* failed attempt but the last one.
C28_DockerStatus ==
    /\ Len(d_outcomes) <= max_retries
    /\ attempt < max_retries
    /\ d_sleeps = attempt
    /\ d_outcomes # <<>> =>
         (d_outcomes[Len(d_outcomes)] = "ok" <=> AttemptPasses(d_in))
    /\ \A i \in 1..Len(d_outcomes) - 1 : d_outcomes[i] # "ok"
    /\ d_ret = "True" <=> (d_outcomes # <<>> /\ d_outcomes[Len(d_outcomes)] = "ok")
    /\ d_ret = "False" <=>
         (Len(d_outcomes) = max_retries /\ \A i \in 1..Len(d_outcomes) : d_outcomes[i] # "ok")
    /\ d_ret # "none" => d_sleeps = Len(d_outcomes) - 1

\* a call that returned True at its last attempt, one container being stopped
C28_Witness ==
    /\ hpc = "returned"
    /\ d_ret = "True"
    /\ Len(d_outcomes) = max_retries
    /\ d_sleeps = max_retries - 1
    /\ Len(d_in.all) = 2 /\ Len(d_in.running) = 1

\* ----------------------------------------------------- check_service_health

\* C29: successful_checks <= total_checks in every state; a request that did not give
\* status 200 is the last one and the function has returned False; it returns True
\* only once the window is over, with every request answered 200 and at least one
\* request made.
C29_ServiceHealth ==
    /\ metrics.successful_checks <= metrics.total_checks
    /\ metrics.successful_checks >= metrics.total_checks - 1
    /\ (metrics.status_code \notin {None, StatusOK} \/ metrics.error # "None") =>
         /\ h_ret = "False" /\ hpc = "returned"
         /\ metrics.successful_checks = metrics.total_checks - 1
    /\ h_ret = "False" => metrics.successful_checks = metrics.total_checks - 1
    /\ h_ret = "True" =>
         /\ metrics.successful_checks = metrics.total_checks
         /\ metrics.total_checks >= 1
         /\ metrics.status_code = StatusOK /\ metrics.error = "None"
         /\ h_clock - start_monitoring >= HealthWindow

\* a health check that went through the whole window
C29_Witness ==
    /\ hpc = "returned"
    /\ h_ret = "True"
    /\ metrics.total_checks > 1
    /\ metrics.successful_checks = metrics.total_checks

\* ------------------------------------------------------------ start_service

\* C30: check_docker_status is called only after the dialogue ended with EOF, at most 5
\* times, and not again after a call that returned True; start_service raises
\* "containers failed to start" exactly when 5 calls returned False; after a timeout
\* or an exception of the dialogue it has raised without any call.
C30_StartService ==
    /\ Len(docker_calls) <= StartRetries
    /\ \A i \in 1..Len(docker_calls) - 1 : docker_calls[i] = "False"
    /\ (docker_calls # <<>> \/ d_caller = "start_service") => dialogue = "eof"
    /\ s_ret = "containers_failed" <=>
         (hpc = "returned" /\ Len(docker_calls) = StartRetries
          /\ \A i \in 1..Len(docker_calls) : docker_calls[i] = "False")
    /\ s_ret = "ok" <=>
         (docker_calls # <<>> /\ docker_calls[Len(docker_calls)] = "True")
    /\ dialogue \in {"timeout", "exception"} =>
         (s_ret = "raised" /\ hpc = "returned" /\ docker_calls = <<>> /\ d_outcomes = <<>>)

\* the containers came up at the last of the 5 calls
C30_Witness ==
    /\ hpc = "returned"
    /\ s_ret = "ok"
    /\ Len(docker_calls) = StartRetries
    /\ rounds > 0


\* C31: between tests and while a test body runs, BaseTestService._setup_complete is
\* true only if setup_class has returned normally (the service started and its
\* containers confirmed running) since the last teardown; so a test body never runs
\* after a setup_class that failed part-way without setup_class running again.
C31_FlagOnlyAfterSetup ==
    /\ (tpc \in {"between", "body"} /\ setup_complete) => setup_ok
    /\ tpc = "body" => setup_ok

\* C32: whenever a test body runs with the parameter config_path, the service was
\* started by setup_class with that config_path: BaseTestService.config_path equals
\* the config_path of the test, and, until the body itself has the service stopped,
\* the service that is up is the one of that config.
C32_BodyRunsOwnConfig ==
    tpc = "body" =>
        /\ base_config_path = cur.config_path
        /\ hpc \notin {"stop_expect", "stop_sleep"} => service = {cur.config_path}

====
